---- MODULE Spec2Model ----
(***************************************************************************)
(* Octocrawl: the concurrent crawl engine of src/src/crawler.py, with the  *)
(* fetch contract of src/src/http_request.py and the link extractors of    *)
(* src/src/parser.py.                                                      *)
(*                                                                         *)
(* The crawler runs on one asyncio event loop, so every coroutine runs     *)
(* atomically between two suspension points.  The worker suspends at       *)
(* `await self.queue.get()` (when the queue is empty) and inside           *)
(* `await http_request(...)`; the locks are never held across a            *)
(* suspension, and `await self.queue.put(...)` on an unbounded queue does  *)
(* not suspend.  crawl() suspends at `await self.queue.join()` and at      *)
(* `await asyncio.gather(...)` in shutdown().  One action of the model is  *)
(* one such atomic stretch of code.                                        *)
(***************************************************************************)
EXTENDS Naturals, Sequences, FiniteSets, TLC

VARIABLES
    start_url,            \* crawler.start_url
    max_workers,          \* crawler.max_workers
    timeouts,             \* the site: the URLs whose request times out
    site,                 \* the site: which of the sites of the model is crawled
    queue,                \* crawler.queue: the items of the asyncio.Queue, FIFO
    unfinished,           \* crawler.queue._unfinished_tasks (put: +1, task_done: -1)
    visited_urls,         \* crawler.visited_urls
    gathered_urls,        \* crawler.gathered_urls: canonical URL -> url_data
    sitemap,              \* crawler.sitemap: the nested dicts, as key path -> dict
    checked_for_listing,  \* crawler.checked_for_listing
    worker_tasks,         \* crawler.worker_tasks: the tasks of the LAST _crawl_loop call
    workers,              \* every worker task ever created: id -> [pc, url]
    cancel_req,           \* tasks on which task.cancel() was called, not yet delivered
    pc,                   \* position of the crawl() coroutine
    cancelled,            \* crawl() caught asyncio.CancelledError (user interrupt)
    passes,               \* number of _crawl_loop calls made so far
    fetch_count,          \* history: canonical URL -> number of http_request calls
    technologies,         \* crawler.technologies: display name -> value
    keywords,             \* the `keywords` argument of crawl(): a list of keywords
    handed,               \* history: the requests issued, in the order of queue.get()
    dispatched,           \* history: canonical URL -> the parser the worker made for it
    call,                 \* a call of a function of parser.py or of check_sitemap_xml:
                          \* its name and arguments
    result,               \* what that call returned
    frames,               \* the frames of the recursive calls of check_sitemap_xml
    available_modules,    \* manager.available_modules: module name -> instance
    loaded_modules,       \* manager.loaded_modules: the list of instances
    instances,            \* the module instances ever made: id -> [name, enabled]
    behaviour,            \* the module files: name -> what setup, run and cleanup do
    module_log,           \* history: the calls of setup, run and cleanup that the last
                          \* call of a method of the manager made
    module_results,       \* the last call of a method of the manager and what it returned
    disabled              \* history: the names disable_module returned True for, and
                          \* that enable_module did not enable again

vars == << start_url, max_workers, timeouts, site, queue, unfinished, visited_urls, gathered_urls,
           sitemap, checked_for_listing, worker_tasks, workers, cancel_req, pc,
           cancelled, passes, fetch_count, technologies, keywords, handed, dispatched,
           call, result, frames, available_modules, loaded_modules, instances, behaviour,
           module_log, module_results, disabled >>

\* the state of the ModuleManager and of its modules
manager_vars == << available_modules, loaded_modules, instances, behaviour, module_log,
                   module_results, disabled >>

(***************************************************************************)
(* Bounds of the model.                                                    *)
(***************************************************************************)
\* the largest configured worker count explored (max_workers ranges over 1..MaxWorkers)
MaxWorkers == 2
\* the largest number of _crawl_loop calls (discovery passes) explored
MaxPasses == 3

(***************************************************************************)
(* URLs.  A URL string scheme://host/seg1/.../segk[/][?query][#fragment]   *)
(* is the record of its urlparse() components; the path is its sequence of *)
(* segments plus whether it ends with "/".                                 *)
(***************************************************************************)
Url(scheme, host, segs, slash, query, fragment) ==
    [scheme |-> scheme, host |-> host, segs |-> segs, slash |-> slash,
     query |-> query, fragment |-> fragment]

\* url_to_process = None
NoUrl == Url("", "", << >>, FALSE, "", "")

\* http://x.test/<segs>[/]
X(segs, slash) == Url("http", "x.test", segs, slash, "", "")

\* urlparse(url)._replace(fragment='').geturl()
StripFragment(u) == [u EXCEPT !.fragment = ""]

\* a normalization that leaves the URL as it is
_normalize_url_identity(u) == u

\* a normalization that removes the fragment only
_normalize_url_keeps_query(u) == [u EXCEPT !.fragment = ""]

\* crawler._normalize_url: urlunparse(urlparse(url)._replace(query='', fragment=''))
_normalize_url(u) == [u EXCEPT !.query = "", !.fragment = ""]

\* str.endswith('/') of the URL string: its last component decides
EndsWithSlash(u) == u.query = "" /\ u.fragment = "" /\ u.slash

\* the path urlparse() sees after `url + '/'`: the "/" lands in the fragment or
\* the query when the URL has one, else it ends the path
BaseForJoinPath(u) ==
    IF EndsWithSlash(u) \/ (u.query = "" /\ u.fragment = "")
    THEN [segs |-> u.segs, slash |-> TRUE]
    ELSE [segs |-> u.segs, slash |-> u.slash]

\* the directory part of a path: everything up to its last "/"
DirOfPath(p) ==
    IF p.slash \/ p.segs = << >> THEN p.segs
    ELSE SubSeq(p.segs, 1, Len(p.segs) - 1)

\* urljoin(base_for_join, key + '/') of _get_all_directory_urls: the relative
\* reference key/ resolved against the base; query and fragment of the base go
UrlJoinDir(current_path_url, key) ==
    Url(current_path_url.scheme, current_path_url.host,
        Append(DirOfPath(BaseForJoinPath(current_path_url)), key), TRUE, "", "")

(***************************************************************************)
(* The site crawled (the remote server and the transport).  A link of a    *)
(* page is the raw form of its href and the absolute URL urljoin() resolves*)
(* it to against the page.                                                 *)
(***************************************************************************)
\* raw: "link" (any other href), "special" (mailto:, tel:, javascript:, data:, #...),
\*      "parent" (/, ../ and the listed sort links), "sort" (an href starting with ?),
\*      "empty" (the empty string)
Href(raw, target) == [raw |-> raw, target |-> target]

\* a page: its title, its links, its visible text and the text inside its markup
\* (tag names, attribute values), both as sequences of characters
Page(title, hrefs, text, markup) ==
    [title |-> title, hrefs |-> hrefs, text |-> text, markup |-> markup]

\* a page without text
Body(title, hrefs) == Page(title, hrefs, << >>, << >>)

\* title: "none" (no <title>), "text" (a title without the marker), "index" (a title
\* holding "Index of /"), "empty" (<title></title>: soup.title.string is None)
NoBody == Body("none", {})

\* what the transport does: "ok" (a response came back), "fail" (httpx.RequestError:
\* connection failure, timeout, unsupported protocol)
Served(outcome, status, ctype, body) ==
    [outcome |-> outcome, status |-> status, ctype |-> ctype, body |-> body]

NotFound == Served("ok", "404", "html", Body("text", {}))

Root == X(<< >>, TRUE)
PageA == X(<<"a">>, FALSE)
PageAData == X(<<"a", "_data">>, FALSE)
PageDE == X(<<"d", "e">>, FALSE)
PageT == X(<<"t">>, FALSE)
FtpC == Url("ftp", "x.test", <<"c">>, FALSE, "", "")
DirD == X(<<"d">>, TRUE)
PageDG == X(<<"d", "g">>, FALSE)
PageDH == X(<<"d", "h">>, FALSE)
PageAB == X(<<"a", "b">>, FALSE)
Other == Url("http", "other.test", <<"a">>, FALSE, "", "")
Mail == Url("mailto", "", <<"m">>, FALSE, "", "")
PageB == X(<<"b">>, FALSE)
PageD == X(<<"d">>, FALSE)
DirF == X(<<"f">>, TRUE)
PageFG == X(<<"f", "g">>, FALSE)
PageHI == X(<<"h", "i">>, FALSE)

PageAKeywords == X(<<"a", "_data", "keywords">>, FALSE)
ImgPng == X(<<"img.png">>, FALSE)
StyleCss == X(<<"style.css">>, FALSE)
DocHtml == X(<<"DOC.HTML">>, FALSE)
PageAsp == X(<<"page.asp">>, FALSE)
Hidden == X(<<"hidden">>, FALSE)
Seen == X(<<"seen">>, FALSE)
Created == X(<<"created">>, FALSE)
DirS == X(<<"s">>, TRUE)
PageST == X(<<"s", "t">>, FALSE)

\* the text "Admin Admin ADMIN"
AdminText ==
    << "A", "d", "m", "i", "n", " ", "A", "d", "m", "i", "n", " ", "A", "D", "M", "I", "N" >>

\* the keyword "admin"
Admin == << "a", "d", "m", "i", "n" >>

\* the URLs of the site that may be too slow for the timeout of the request
Slow == { PageA, PageDE, DirD }

\* the site "main": pages, a JSON document, a directory with a listing, a page with
\* an empty title, links with queries and fragments, to another scheme and host
MainSite(u) ==
    CASE u = Root -> Served("ok", "200", "html", Body("text",
            { Href("link", [PageA EXCEPT !.fragment = "top"]),
              Href("link", PageAData),
              Href("special", Mail) }))
      [] u = PageA -> Served("ok", "200", "html", Body("none",
            { Href("link", [PageDE EXCEPT !.query = "x=1"]),
              Href("link", FtpC),
              Href("link", Other) }))
      [] u = PageAData -> Served("ok", "200", "json", Body("none",
            { Href("link", [PageDE EXCEPT !.fragment = "frag"]),
              Href("link", PageT) }))
      [] u = PageT -> Served("ok", "200", "html", Body("empty",
            { Href("link", PageDG) }))
      [] u = DirD -> Served("ok", "200", "html", Body("index",
            { Href("link", PageDG),
              Href("link", PageDH),
              Href("parent", Root),
              Href("sort", [DirD EXCEPT !.query = "C=N;O=D"]) }))
      [] OTHER -> NotFound

\* the site "scenario": / links to /a, /a links to /b?x=1#frag, /b is not found
ScenarioSite(u) ==
    CASE u = Root -> Served("ok", "200", "html", Body("text", { Href("link", PageA) }))
      [] u = PageA -> Served("ok", "200", "html", Body("text",
            { Href("link", [PageB EXCEPT !.query = "x=1", !.fragment = "frag"]) }))
      [] OTHER -> NotFound

\* the site "chain": / links to the page /d and to /d/e; the page served at /d/ links
\* to /f/g and the page served at /f/ links to /h/i: each directory is found through
\* the page of another directory of the same depth
ChainSite(u) ==
    CASE u = Root -> Served("ok", "200", "html", Body("text",
            { Href("link", PageD), Href("link", PageDE) }))
      [] u = PageD -> Served("ok", "200", "html", Body("text", {}))
      [] u = DirD -> Served("ok", "200", "html", Body("text", { Href("link", PageFG) }))
      [] u = DirF -> Served("ok", "200", "html", Body("text", { Href("link", PageHI) }))
      [] OTHER -> NotFound

\* the site "files": / holds the text "Admin Admin ADMIN" and links to the page /a, to
\* an image and to a style sheet; /a links to /a/_data/keywords, to a page with an
\* upper-case extension and to a page with an extension that is not fetched with GET;
\* that page links to /seen (404) and /created (201), whose bodies hold a link; the
\* style sheet, the .asp page, /seen and /created hold links that no parser may see
FilesSite(u) ==
    CASE u = Root -> Served("ok", "200", "html", Page("text",
            { Href("link", PageA), Href("link", ImgPng), Href("link", StyleCss) },
            AdminText, << >>))
      [] u = PageA -> Served("ok", "200", "xhtml+xml", Page("text",
            { Href("link", PageAKeywords), Href("link", DocHtml), Href("link", PageAsp) },
            << >>, Admin))
      [] u = ImgPng -> Served("ok", "200", "png", Page("none", {}, AdminText, << >>))
      [] u = StyleCss -> Served("ok", "200", "css", Page("none",
            { Href("link", Hidden) }, AdminText, << >>))
      [] u = DocHtml -> Served("ok", "200", "html", Page("text",
            { Href("link", Seen), Href("link", Created) }, << >>, << >>))
      [] u = Seen -> Served("ok", "404", "html", Page("text",
            { Href("link", Hidden) }, AdminText, << >>))
      [] u = Created -> Served("ok", "201", "html", Page("text",
            { Href("link", Hidden) }, AdminText, << >>))
      [] u = PageAsp -> Served("ok", "200", "html", Page("text",
            { Href("link", Hidden) }, AdminText, << >>))
      [] OTHER -> NotFound

\* the site "listed": / links to the directory /s/ and to /s/t, which is not found
ListedSite(u) ==
    CASE u = Root -> Served("ok", "200", "html", Body("text",
            { Href("link", DirS), Href("link", PageST) }))
      [] u = DirS -> Served("ok", "200", "html", Body("text", {}))
      [] OTHER -> NotFound

Sites == { "main", "scenario", "chain", "files", "listed" }

\* the server answers by scheme, host and path; it ignores query and fragment
Server(url) ==
    LET u == _normalize_url(url) IN
    IF u.scheme # "http" \/ u \in timeouts THEN Served("fail", "", "", NoBody)
    ELSE CASE site = "main" -> MainSite(u)
           [] site = "scenario" -> ScenarioSite(u)
           [] site = "files" -> FilesSite(u)
           [] site = "listed" -> ListedSite(u)
           [] OTHER -> ChainSite(u)

\* the response headers (lower-case keys, as httpx gives them)
ServedHeaders(url) ==
    LET u == _normalize_url(url) IN
    IF site # "main" THEN ("date" :> "today")
    ELSE CASE u = Root -> ("server" :> "nginx") @@ ("date" :> "today")
           [] u = PageA -> ("server" :> "apache")
           [] u = PageT -> ("server" :> "nginx") @@ ("x-powered-by" :> "php")
           [] u = PageDE -> ("server" :> "nginx") @@ ("via" :> "proxy")
           [] OTHER -> ("server" :> "nginx")

(***************************************************************************)
(* http_request (src/src/http_request.py)                                  *)
(***************************************************************************)
Result(response_code, done, content, content_type, headers) ==
    [response_code |-> response_code, done |-> done, content |-> content,
     content_type |-> content_type, headers |-> headers]

\* raise_for_status() raises for every status that is not 2xx
IsSuccess(status) == status \in { "200", "201" }

\* line 6
GET_REQUEST_EXTENSIONS == { ".html", ".htm", ".php", ".js", ".css", ".json", ".xml", ".svg" }

\* str.lower() of a path segment (the segments of the model with an upper-case letter)
LowerName(name) == IF name = "DOC.HTML" THEN "doc.html" ELSE name

\* os.path.splitext(path)[1]: the part of the last component of the path from its
\* last dot on, "" when the path ends with "/" or the component has no dot
splitext(segs, slash) ==
    IF slash \/ segs = << >> THEN ""
    ELSE CASE segs[Len(segs)] = "img.png" -> ".png"
           [] segs[Len(segs)] = "style.css" -> ".css"
           [] segs[Len(segs)] = "DOC.HTML" -> ".HTML"
           [] segs[Len(segs)] = "doc.html" -> ".html"
           [] segs[Len(segs)] = "page.asp" -> ".asp"
           [] OTHER -> ""

\* a choice of method that compares the extension as it is written
use_get_request_case_sensitive(url) ==
    LET extension == splitext(url.segs, url.slash)
    IN  extension \in GET_REQUEST_EXTENSIONS \/ extension = ""

\* lines 32-34: the extension of the lower-cased path decides
use_get_request(url) ==
    LET extension == splitext([i \in DOMAIN url.segs |-> LowerName(url.segs[i])], url.slash)
    IN  extension \in GET_REQUEST_EXTENSIONS \/ extension = ""

\* lines 36-41: the method of the request
Method(url) == IF use_get_request(url) THEN "GET" ELSE "HEAD"

\* lines 36-54: content is response.text after a GET and "" after a HEAD
http_request(url) ==
    LET r == Server(url)
        content == IF use_get_request(url) THEN r.body ELSE NoBody
    IN
    IF r.outcome = "fail" THEN Result("Error", FALSE, NoBody, "error", << >>)
    ELSE IF IsSuccess(r.status)
         THEN Result(r.status, TRUE, content, r.ctype, ServedHeaders(url))
         ELSE Result(r.status, FALSE, content, "error", ServedHeaders(url))

(***************************************************************************)
(* fingerprint_technologies (src/src/fingerprint.py): the interesting      *)
(* headers of a response, under their display names.  No page of the model *)
(* has a generator <meta> or a session cookie.                             *)
(***************************************************************************)
INTERESTING_HEADERS ==
    ("server" :> "Server") @@ ("x-powered-by" :> "X-Powered-By") @@ ("via" :> "Via (Proxies)")

fingerprint_technologies(headers, content) ==
    LET found == DOMAIN headers \cap DOMAIN INTERESTING_HEADERS
    IN  [display_name \in { INTERESTING_HEADERS[k] : k \in found } |->
            headers[CHOOSE k \in found : INTERESTING_HEADERS[k] = display_name]]

\* dict.update: the values of `other` replace those of `d`
update(d, other) == other @@ d

\* a merge that fingerprints every response, failed ones included
MergeTech_every_response(tech, request) ==
    update(tech, fingerprint_technologies(request.headers, request.content))

\* lines 67-71: the technologies after the response was fingerprinted
MergeTech(tech, request) ==
    IF request.done THEN update(tech, fingerprint_technologies(request.headers, request.content))
    ELSE tech

(***************************************************************************)
(* The extractors (src/src/parser.py).  base_domain is the netloc of the   *)
(* page URL; a link is kept when its netloc equals it, with its fragment   *)
(* removed.                                                                *)
(***************************************************************************)
\* no call of a function of parser.py is being made
NoCall == [fn |-> "none"]

(***************************************************************************)
(* References as they are written in a document, and urljoin.  A reference *)
(* is a full URL ("full": http://host/..., mailto:...), an absolute path   *)
(* ("abs": /seg/...) or a relative reference ("rel": `up` times "../", or  *)
(* "./" when `dot`, then seg/seg..., then ?query and #fragment; with no    *)
(* path at all it is "?query", "#fragment" or the empty string).           *)
(***************************************************************************)
FullRef(url) ==
    [form |-> "full", url |-> url, up |-> 0, dot |-> FALSE, segs |-> << >>,
     slash |-> FALSE, query |-> "", fragment |-> ""]

AbsRef(segs, slash, fragment) ==
    [form |-> "abs", url |-> NoUrl, up |-> 0, dot |-> FALSE, segs |-> segs,
     slash |-> slash, query |-> "", fragment |-> fragment]

RelRef(up, dot, segs, slash, query, fragment) ==
    [form |-> "rel", url |-> NoUrl, up |-> up, dot |-> dot, segs |-> segs,
     slash |-> slash, query |-> query, fragment |-> fragment]

\* the empty string
EmptyRef == RelRef(0, FALSE, << >>, FALSE, "", "")

\* the reference has no path: it is "", "?query[#fragment]" or "#fragment"
NoPath(h) == h.form = "rel" /\ h.up = 0 /\ ~h.dot /\ h.segs = << >> /\ ~h.slash

\* href.startswith('?')
StartsWithQuestion(h) == NoPath(h) /\ h.query # ""

\* href.startswith('#')
StartsWithHash(h) == NoPath(h) /\ h.query = "" /\ h.fragment # ""

\* link_lower.startswith(('mailto:', 'tel:', 'javascript:', 'data:', '#'))
SpecialPrefix(h) ==
    \/ h.form = "full" /\ h.url.scheme \in { "mailto", "tel", "javascript", "data" }
    \/ StartsWithHash(h)

\* item.startswith(('http://', 'https://', '/', './'))
LooksLikeUrl(h) ==
    \/ h.form = "full" /\ h.url.scheme \in { "http", "https" }
    \/ h.form = "abs"
    \/ h.form = "rel" /\ h.dot

\* dir_listing_parser: ignored_hrefs = {'/', '../', '?C=N;O=D', '?C=M;O=A', '?C=S;O=A',
\* '?C=D;O=A'}
ignored_hrefs ==
    { AbsRef(<< >>, TRUE, ""), RelRef(1, FALSE, << >>, TRUE, "", "") }
        \cup { RelRef(0, FALSE, << >>, FALSE, q, "") :
                  q \in { "C=N;O=D", "C=M;O=A", "C=S;O=A", "C=D;O=A" } }

\* urllib.parse.urljoin(base, h): a full URL is taken as it is; an absolute path
\* replaces the path of the base; a reference without path keeps the path of the base
\* (and its query, when the reference has none); a relative path is appended to the
\* directory of the base after `up` of its segments are removed
urljoin(base, h) ==
    CASE h.form = "full" -> h.url
      [] h.form = "abs" -> Url(base.scheme, base.host, h.segs, h.slash, h.query, h.fragment)
      [] OTHER ->
            IF NoPath(h)
            THEN IF h.query # ""
                 THEN [base EXCEPT !.query = h.query, !.fragment = h.fragment]
                 ELSE IF h.fragment # "" THEN [base EXCEPT !.fragment = h.fragment]
                      ELSE base
            ELSE LET dir == DirOfPath([segs |-> base.segs, slash |-> base.slash])
                     kept == SubSeq(dir, 1, IF Len(dir) > h.up THEN Len(dir) - h.up ELSE 0)
                 IN  Url(base.scheme, base.host, kept \o h.segs,
                         IF h.segs = << >> THEN TRUE ELSE h.slash, h.query, h.fragment)

\* how the parsers see the text of a reference: "empty" (`not href`), "sort" (it
\* starts with ?), "parent" (it is in ignored_hrefs), "special" (a prefix html_parser
\* skips), "link" (any other)
RawOf(h) ==
    CASE h = EmptyRef -> "empty"
      [] StartsWithQuestion(h) -> "sort"
      [] h \in ignored_hrefs -> "parent"
      [] SpecialPrefix(h) -> "special"
      [] OTHER -> "link"

\* a reference of the page at base, with the URL it resolves to
Anchor(h, base) == Href(RawOf(h), urljoin(base, h))

\* str.lower() on the characters of the texts of the model
LowerChar(c) ==
    CASE c = "A" -> "a" [] c = "B" -> "b" [] c = "D" -> "d" [] c = "I" -> "i"
      [] c = "M" -> "m" [] c = "N" -> "n" [] OTHER -> c

lower(text) == [i \in DOMAIN text |-> LowerChar(text[i])]

\* text[i : i + len(sub)] == sub
MatchAt(text, sub, i) ==
    i + Len(sub) - 1 <= Len(text) /\ SubSeq(text, i, i + Len(sub) - 1) = sub

\* str.count from index i on: the leftmost occurrence is counted and the search goes
\* on after its end, so the occurrences counted do not overlap
RECURSIVE CountFrom(_, _, _)
CountFrom(text, sub, i) ==
    IF \E j \in i..Len(text) : MatchAt(text, sub, j)
    THEN LET j == CHOOSE j \in i..Len(text) :
                      MatchAt(text, sub, j) /\ \A k \in i..(j - 1) : ~MatchAt(text, sub, k)
         IN  1 + CountFrom(text, sub, j + Len(sub))
    ELSE 0

\* str.count(sub); the empty string is found between any two characters
count(text, sub) == IF sub = << >> THEN Len(text) + 1 ELSE CountFrom(text, sub, 1)

\* a search that compares the text as it is written
search_text_for_keywords_case_sensitive(text, kws) ==
    IF kws = << >> \/ text = << >> THEN << >>
    ELSE LET found == { kws[i] : i \in { j \in DOMAIN kws : count(text, kws[j]) > 0 } }
         IN  [keyword \in found |-> count(text, keyword)]

\* parser.py, lines 6-18
search_text_for_keywords(text, kws) ==
    IF kws = << >> \/ text = << >> THEN << >>
    ELSE LET found == { kws[i] : i \in { j \in DOMAIN kws :
                            count(lower(text), lower(kws[j])) > 0 } }
         IN  [keyword \in found |-> count(lower(text), lower(keyword))]

\* html_parser: soup.get_text(), the text outside the tags
get_text(content) == content.text

\* json_parser, dir_listing_parser: self.raw_content, the body as it was received
raw_content(content) ==
    IF content.markup = << >> THEN content.text
    ELSE << "<" >> \o content.markup \o << ">" >> \o content.text

\* lines 55-71: `if not link_path` and the prefixes skipped
html_internal_links(content, base_url) ==
    { StripFragment(h.target) :
        h \in { g \in content.hrefs : g.raw \notin { "empty", "special" }
                                      /\ g.target.host = base_url.host } }

\* a directory-listing parser that follows the links that start with ?
dir_listing_internal_links_keeps_sort(content, base_url) ==
    { StripFragment(h.target) :
        h \in { g \in content.hrefs : g.raw \notin { "empty", "parent" }
                                      /\ g.target.host = base_url.host } }

\* lines 197-209: `not href or href.startswith('?') or href in ignored_hrefs`
dir_listing_internal_links(content, base_url) ==
    { StripFragment(h.target) :
        h \in { g \in content.hrefs : g.raw \notin { "empty", "parent", "sort" }
                                      /\ g.target.host = base_url.host } }

\* a JSON parser that keeps the links to other hosts
json_internal_links_any_host(content, base_url) ==
    { StripFragment(h.target) : h \in { g \in content.hrefs : g.raw # "empty" } }

\* lines 156-169 over the strings found in the document: `if not clean_link`
json_internal_links(content, base_url) ==
    { StripFragment(h.target) :
        h \in { g \in content.hrefs : g.raw # "empty" /\ g.target.host = base_url.host } }

\* line 93: `soup.title and "Index of /" in soup.title.string` raises TypeError
\* when the page has a <title> whose .string is None
TitleRaises(content) == content.title = "empty"

is_listing(content) == content.title = "index"

\* `word in ctype` for the content types of the model: "html" is a substring of
\* text/html ("html") and application/xhtml+xml ("xhtml+xml"), "json" of
\* application/json ("json")
In(word, ctype) ==
    CASE word = "html" -> ctype \in { "html", "xhtml+xml" }
      [] word = "json" -> ctype \in { "json" }
      [] OTHER -> FALSE

\* a dispatch that parses every response that has a body
ParserOf_any_status(request) ==
    IF request.content # NoBody
    THEN IF In("html", request.content_type)
         THEN IF is_listing(request.content) THEN "dir_listing" ELSE "html"
         ELSE IF In("json", request.content_type) THEN "json" ELSE "none"
    ELSE "none"

\* lines 87-96: the parser the worker makes ("none": parser stays None)
ParserOf(request) ==
    IF request.done /\ request.response_code = "200" /\ request.content # NoBody
    THEN IF In("html", request.content_type)
         THEN IF is_listing(request.content) THEN "dir_listing" ELSE "html"
         ELSE IF In("json", request.content_type) THEN "json" ELSE "none"
    ELSE "none"

\* lines 98-99: parser.internal_links of the parser made
ExtractedLinks(request, canonical_url) ==
    CASE ParserOf(request) = "dir_listing" ->
            dir_listing_internal_links(request.content, canonical_url)
      [] ParserOf(request) = "html" -> html_internal_links(request.content, canonical_url)
      [] ParserOf(request) = "json" -> json_internal_links(request.content, canonical_url)
      [] OTHER -> {}

\* lines 105-106: parser.find_keywords(keywords) of the parser made; 'keywords' stays
\* {} when there is no parser or no keyword
FoundKeywords(request, kws) ==
    CASE ParserOf(request) = "html" -> search_text_for_keywords(get_text(request.content), kws)
      [] ParserOf(request) \in { "dir_listing", "json" } ->
            search_text_for_keywords(raw_content(request.content), kws)
      [] OTHER -> << >>

\* lines 87-93: the dispatch raises before any link is enqueued
DispatchRaises(request) ==
    /\ request.done /\ request.response_code = "200" /\ request.content # NoBody
    /\ In("html", request.content_type)
    /\ TitleRaises(request.content)


(***************************************************************************)
(* The sitemap (crawler.sitemap).  The nested dicts are the function from  *)
(* each key path that leads to a dict to that dict's kind: a node (made by *)
(* setdefault(segment, {})) or a url_data dict (stored under "_data").     *)
(* The walk of _add_to_sitemap does not tell the two apart: a path segment *)
(* named "_data" walks into the url_data dict stored at that key.          *)
(***************************************************************************)
Node == [kind |-> "node", code |-> "", content_type |-> "", url |-> NoUrl, keywords |-> << >>]

\* the dict under the key 'keywords' of a url_data dict; its items are the field
\* keywords of the url_data record, its key path leads the walk into it
KeywordsDict ==
    [kind |-> "keywords", code |-> "", content_type |-> "", url |-> NoUrl, keywords |-> << >>]

\* lines 80-85 and 106: url_data
UrlData(code, content_type, url, kws) ==
    [kind |-> "data", code |-> code, content_type |-> content_type, url |-> url,
     keywords |-> kws]

IsPrefix(p, q) == Len(p) <= Len(q) /\ SubSeq(q, 1, Len(p)) = p

\* dict.setdefault(key, {}) along every key of `path`
SetDefaultPath(sm, path) ==
    LET missing == { SubSeq(path, 1, i) : i \in 1..Len(path) } \ DOMAIN sm
    IN  sm @@ [q \in missing |-> Node]

\* current_level.setdefault(last, {}).update({'_data': url_data}): the old value
\* of the key "_data", with everything below it, is replaced
UpdateData(sm, path, url_data) ==
    LET leaf == Append(path, "_data")
        kept == { q \in DOMAIN sm : ~IsPrefix(leaf, q) }
    IN  (leaf :> url_data) @@ (Append(leaf, "keywords") :> KeywordsDict)
            @@ [q \in kept |-> sm[q]]

\* the walk enters the dict under 'keywords' of the url_data dict at q and puts a key
\* into it: the next segment (setdefault), or '_data' when 'keywords' is the last
\* segment (update); the key is kept as a one-element tuple, its value is a dict
TouchKeywords(sm, path) ==
    [q \in DOMAIN sm |->
        IF sm[q].kind = "data" /\ IsPrefix(Append(q, "keywords"), path)
        THEN LET key == IF Len(path) > Len(q) + 1 THEN path[Len(q) + 2] ELSE "_data"
             IN  [sm[q] EXCEPT !.keywords = @ @@ (<< key >> :> "dict")]
        ELSE sm[q]]

\* path_segments of line 44: path.strip('/').split('/')
PathSegments(url) == url.segs

\* no segment of the sites of the model is named code, content_type or url, or is a
\* keyword (the walk would reach a value that is no dict and raise AttributeError)
_add_to_sitemap(sm, url, url_data) ==
    LET path == IF PathSegments(url) = << >> THEN << "/" >> ELSE PathSegments(url)
    IN  UpdateData(TouchKeywords(SetDefaultPath(sm, path), path), path, url_data)

\* lines 109-110: gathered_urls and the sitemap hold the same url_data dict objects;
\* what the walk puts into a dict of the sitemap is put into the entry of gathered_urls
Aliased(gathered, sm) ==
    [u \in DOMAIN gathered |->
        IF \E q \in DOMAIN sm : sm[q].kind = "data" /\ sm[q].url = u
        THEN sm[CHOOSE q \in DOMAIN sm : sm[q].kind = "data" /\ sm[q].url = u]
        ELSE gathered[u]]

\* the keys of the dict at key path p
Keys(sm, p) ==
    { q[Len(p) + 1] : q \in { r \in DOMAIN sm : Len(r) = Len(p) + 1 /\ IsPrefix(p, r) } }

\* line 130: children = {k: v for k, v in value.items() if k != '_data'}
Children(sm, p) == Keys(sm, p) \ {"_data"}

\* _get_all_directory_urls over the dict at key path p, of which `keys` are iterated
RECURSIVE DirectoryUrls(_, _, _, _)
DirectoryUrls(sm, p, keys, current_path_url) ==
    UNION { IF Children(sm, Append(p, key)) # {}
            THEN LET dir_url == UrlJoinDir(current_path_url, key)
                 IN  {dir_url} \cup DirectoryUrls(sm, Append(p, key),
                                                  Children(sm, Append(p, key)), dir_url)
            ELSE {} : key \in keys }

\* the call of line 152: sitemap_node = self.sitemap, current_path_url = self.start_url
_get_all_directory_urls(sm, start) == DirectoryUrls(sm, << >>, Keys(sm, << >>), start)

(***************************************************************************)
(* Helpers of the actions                                                  *)
(***************************************************************************)
\* the orders in which a Python set can be iterated
Perms(S) ==
    { f \in [1..Cardinality(S) -> S] : \A i, j \in 1..Cardinality(S) : f[i] = f[j] => i = j }

Bump(f, k) == IF k \in DOMAIN f THEN [f EXCEPT ![k] = @ + 1] ELSE f @@ (k :> 1)

\* the link loop without the `not in self.visited_urls` test
NewLinks_unchecked(links, visited) == { _normalize_url(link) : link \in links }

\* lines 100-104: the normalized links the visited check lets through
NewLinks(links, visited) == { _normalize_url(link) : link \in links } \ visited

\* a probing step that finds no directory to check
NewDirsToCheck_none(all_dirs, checked) == {}

\* a probing step that does not subtract the directories already checked
NewDirsToCheck_all(all_dirs, checked) == all_dirs

\* line 153: new_dirs_to_check = all_dirs - self.checked_for_listing
NewDirsToCheck(all_dirs, checked) == all_dirs \ checked

\* a probing loop without the `not in self.visited_urls` test
NewDirs_unchecked(dirs, visited) == dirs

\* lines 159-162: the directories the visited check lets through
NewDirs(dirs, visited) == { d \in dirs : _normalize_url(d) \notin visited }

\* a VisitedSet that is replaced by the URLs just found
AddVisited_replaced(visited, new) == new

\* lines 103 and 161: self.visited_urls.add(...) for every URL let through
AddVisited(visited, new) == visited \cup new

\* a join() that returns while items are unfinished
JoinMayReturn_early(n) == TRUE

\* asyncio.Queue.join: returns when no put item is unfinished
JoinMayReturn(n) == n = 0

\* an item marked done twice
task_done_twice(n) == IF n > 1 THEN n - 2 ELSE 0

\* asyncio.Queue.task_done: one unfinished task less
task_done(n) == n - 1

\* asyncio.Queue.put: one unfinished task more per item
put_count(n, items) == n + Len(items)

\* a queue that puts the new items in front of the ones that wait
put_in_front(q, items) == items \o q

\* asyncio.Queue.put of each item in turn: the queue is first-in first-out, the
\* items go to its tail (get() takes its head)
put(q, items) == q \o items

\* _crawl_loop, line 122: max_workers new tasks; the earlier ones stay alive
NewTaskIds == (passes * max_workers + 1) .. ((passes + 1) * max_workers)

Idle == [pc |-> "get", url |-> NoUrl]

Dead == [pc |-> "dead", url |-> NoUrl]

Alive(w) == workers[w].pc # "dead"

\* a worker without the `except Exception` clause: the exception ends the task
ExceptionEndsWorker == Dead

\* lines 114-116: `except Exception` prints and the while loop goes on
ExceptionCaught == Idle

StartUrls == { Root, PageAB, [PageAB EXCEPT !.query = "s=1"] }

\* the crawls explored: every start URL and every set of timeouts on the site "main",
\* the seed http://x.test/ without timeouts on the other sites; the sites "files" and
\* "scenario" are crawled with and without a keyword
Crawls ==
    { c \in [start_url : StartUrls, site : Sites, timeouts : SUBSET Slow,
             keywords : { << >>, << Admin >> }] :
        /\ c.site # "main" => (c.start_url = Root /\ c.timeouts = {})
        /\ c.site \notin { "files", "scenario" } => c.keywords = << >> }

(***************************************************************************)
(* The ModuleManager was made (module_manager.py, lines 24-25) in a        *)
(* directory without module files.                                         *)
(***************************************************************************)
NoManager ==
    /\ available_modules = << >> /\ loaded_modules = << >> /\ instances = << >>
    /\ behaviour = << >> /\ module_log = << >> /\ module_results = NoCall
    /\ disabled = {}

(***************************************************************************)
(* State after crawler.__init__                                            *)
(***************************************************************************)
Init ==
    /\ \E c \in Crawls :
         /\ start_url = c.start_url /\ site = c.site /\ timeouts = c.timeouts
         /\ keywords = c.keywords
    /\ max_workers \in 1..MaxWorkers
    /\ queue = << >>
    /\ unfinished = 0
    /\ visited_urls = { _normalize_url(start_url) }
    /\ gathered_urls = << >>
    /\ sitemap = << >>
    /\ checked_for_listing = {}
    /\ worker_tasks = {}
    /\ workers = << >>
    /\ cancel_req = {}
    /\ pc = "start"
    /\ cancelled = FALSE
    /\ passes = 0
    /\ fetch_count = << >>
    /\ technologies = << >>
    /\ handed = << >>
    /\ dispatched = << >>
    /\ call = NoCall
    /\ result = NoCall
    /\ frames = << >>
    /\ NoManager

(***************************************************************************)
(* crawl(), lines 145-148: the seed is put and the first pass starts       *)
(***************************************************************************)
CrawlStart ==
    /\ pc = "start"
    /\ queue' = put(queue, << start_url >>)
    /\ unfinished' = put_count(unfinished, << start_url >>)
    /\ workers' = workers @@ [w \in NewTaskIds |-> Idle]
    /\ worker_tasks' = NewTaskIds
    /\ passes' = passes + 1
    /\ pc' = "join"
    /\ UNCHANGED << frames, manager_vars, keywords, handed, dispatched, call, result, start_url, max_workers, timeouts, site, visited_urls, gathered_urls, sitemap,
                    checked_for_listing, cancel_req, cancelled, fetch_count,
                    technologies >>

(***************************************************************************)
(* worker, lines 60-62: an item is dequeued and its request is issued      *)
(***************************************************************************)
WorkerGet(w) ==
    /\ workers[w].pc = "get"
    /\ w \notin cancel_req
    /\ queue # << >>
    /\ workers' = [workers EXCEPT ![w] = [pc |-> "fetch", url |-> Head(queue)]]
    /\ queue' = Tail(queue)
    /\ fetch_count' = Bump(fetch_count, _normalize_url(Head(queue)))
    /\ handed' = Append(handed, [url |-> Head(queue), method |-> Method(Head(queue))])
    /\ UNCHANGED << frames, manager_vars, keywords, dispatched, call, result, start_url, max_workers, timeouts, site, unfinished, visited_urls, gathered_urls,
                    sitemap, checked_for_listing, worker_tasks, cancel_req, pc,
                    cancelled, passes, technologies >>

(***************************************************************************)
(* worker, lines 62-119: the request returns and the item is processed up  *)
(* to the next `await self.queue.get()`                                    *)
(***************************************************************************)
WorkerProcess(w) ==
    LET url_to_process == workers[w].url
        request == http_request(url_to_process)
        canonical_url == _normalize_url(url_to_process)
        url_data == UrlData(request.response_code, request.content_type, canonical_url,
                            FoundKeywords(request, keywords))
    IN
    /\ workers[w].pc = "fetch"
    /\ w \notin cancel_req
    /\ technologies' = MergeTech(technologies, request)
    /\ IF canonical_url \in DOMAIN gathered_urls
       THEN \* lines 76-78: task_done(), then `continue` runs the finally: task_done()
            \* again, which raises ValueError out of the worker when nothing is left
            /\ unfinished' = IF unfinished >= 2 THEN task_done(task_done(unfinished)) ELSE 0
            /\ workers' = [workers EXCEPT ![w] = IF unfinished >= 2 THEN Idle ELSE Dead]
            /\ UNCHANGED << queue, visited_urls, gathered_urls, sitemap, dispatched >>
       ELSE IF DispatchRaises(request)
       THEN \* lines 114-119: the exception is printed, the item is marked done
            /\ unfinished' = task_done(unfinished)
            /\ workers' = [workers EXCEPT ![w] = ExceptionCaught]
            /\ UNCHANGED << queue, visited_urls, gathered_urls, sitemap, dispatched >>
       ELSE \E order \in Perms(NewLinks(ExtractedLinks(request, canonical_url), visited_urls)) :
            /\ visited_urls' = AddVisited(visited_urls,
                    NewLinks(ExtractedLinks(request, canonical_url), visited_urls))
            /\ queue' = put(queue, order)
            /\ dispatched' = (canonical_url :> ParserOf(request)) @@ dispatched
            /\ sitemap' = _add_to_sitemap(sitemap, canonical_url, url_data)
            /\ gathered_urls' = Aliased((canonical_url :> url_data) @@ gathered_urls,
                                        _add_to_sitemap(sitemap, canonical_url, url_data))
            /\ unfinished' = task_done(put_count(unfinished, order))
            /\ workers' = [workers EXCEPT ![w] = Idle]
    /\ UNCHANGED << frames, manager_vars, keywords, handed, call, result, start_url, max_workers, timeouts, site,
                    checked_for_listing, worker_tasks, cancel_req, pc, cancelled, passes,
                    fetch_count >>

(***************************************************************************)
(* worker, lines 112-113 and 117-119: CancelledError is raised at the      *)
(* await the task is suspended at; the loop breaks                         *)
(***************************************************************************)
WorkerCancelled(w) ==
    /\ w \in cancel_req
    /\ Alive(w)
    /\ unfinished' = IF workers[w].pc = "fetch" THEN task_done(unfinished) ELSE unfinished
    /\ workers' = [workers EXCEPT ![w] = Dead]
    /\ cancel_req' = cancel_req \ {w}
    /\ UNCHANGED << frames, manager_vars, keywords, handed, dispatched, call, result, start_url, max_workers, timeouts, site, queue, visited_urls, gathered_urls, sitemap,
                    checked_for_listing, worker_tasks, pc, cancelled, passes, fetch_count,
                    technologies >>

\* shutdown, lines 139-140: task.cancel() on the tasks of self.worker_tasks
ShutdownCancels(tasks, ws) == { w \in tasks : ws[w].pc # "dead" }

(***************************************************************************)
(* crawl(), lines 148-165 and 171: queue.join() returns; the loop probes   *)
(* the directories of the sitemap and starts the next pass, or breaks and  *)
(* calls shutdown()                                                        *)
(***************************************************************************)
CrawlJoinReturns ==
    LET all_dirs == _get_all_directory_urls(sitemap, start_url)
        new_dirs_to_check == NewDirsToCheck(all_dirs, checked_for_listing)
        to_put == NewDirs(new_dirs_to_check, visited_urls)
        ws == workers @@ [w \in NewTaskIds |-> Idle]
    IN
    /\ pc = "join"
    /\ JoinMayReturn(unfinished)
    /\ IF new_dirs_to_check = {}
       THEN /\ cancel_req' = cancel_req \cup ShutdownCancels(worker_tasks, workers)
            /\ pc' = "shutdown"
            /\ UNCHANGED << queue, unfinished, visited_urls, checked_for_listing,
                            worker_tasks, workers, passes >>
       ELSE /\ passes < MaxPasses
            /\ \E order \in Perms(to_put) :
                 /\ queue' = put(queue, order)
                 /\ unfinished' = put_count(unfinished, order)
            /\ visited_urls' = AddVisited(visited_urls, { _normalize_url(d) : d \in to_put })
            /\ checked_for_listing' = checked_for_listing \cup new_dirs_to_check
            /\ workers' = ws
            /\ worker_tasks' = NewTaskIds
            /\ passes' = passes + 1
            /\ IF to_put = {}
               THEN \* nothing was put: join() returns at once, the next round finds
                    \* no new directory and breaks
                    /\ cancel_req' = cancel_req \cup ShutdownCancels(NewTaskIds, ws)
                    /\ pc' = "shutdown"
               ELSE /\ pc' = "join"
                    /\ UNCHANGED cancel_req
    /\ UNCHANGED << frames, manager_vars, keywords, handed, dispatched, call, result, start_url, max_workers, timeouts, site, gathered_urls, sitemap, cancelled, fetch_count,
                    technologies >>

(***************************************************************************)
(* crawl(), lines 167-171: the user interrupt cancels crawl() at its       *)
(* await of queue.join(); the handler runs and shutdown() is called        *)
(***************************************************************************)
CrawlCancelled ==
    /\ pc = "join"
    /\ cancelled' = TRUE
    /\ cancel_req' = cancel_req \cup ShutdownCancels(worker_tasks, workers)
    /\ pc' = "shutdown"
    /\ UNCHANGED << frames, manager_vars, keywords, handed, dispatched, call, result, start_url, max_workers, timeouts, site, queue, unfinished, visited_urls, gathered_urls,
                    sitemap, checked_for_listing, worker_tasks, workers, passes, fetch_count,
                    technologies >>

(***************************************************************************)
(* shutdown(), line 141, and crawl(), lines 173-198: gather returns when   *)
(* the tasks of self.worker_tasks have ended; the report is written        *)
(***************************************************************************)
ShutdownReturns ==
    /\ pc = "shutdown"
    /\ \A w \in worker_tasks : ~Alive(w)
    /\ pc' = "done"
    /\ UNCHANGED << frames, manager_vars, keywords, handed, dispatched, call, result, start_url, max_workers, timeouts, site, queue, unfinished, visited_urls, gathered_urls,
                    sitemap, checked_for_listing, worker_tasks, workers, cancel_req,
                    cancelled, passes, fetch_count, technologies >>

Next ==
    \/ CrawlStart
    \/ \E w \in DOMAIN workers : WorkerGet(w)
    \/ \E w \in DOMAIN workers : WorkerProcess(w)
    \/ \E w \in DOMAIN workers : WorkerCancelled(w)
    \/ CrawlJoinReturns
    \/ CrawlCancelled
    \/ ShutdownReturns

Spec == Init /\ [][Next]_vars


(***************************************************************************)
(* Vocabulary of the properties                                            *)
(***************************************************************************)
Range(f) == { f[i] : i \in DOMAIN f }

InFlight == { w \in DOMAIN workers : workers[w].pc = "fetch" }

LiveWorkers == { w \in DOMAIN workers : Alive(w) }

\* the number of http_request calls issued so far for the canonical URL u
Fetches(u) == IF u \in DOMAIN fetch_count THEN fetch_count[u] ELSE 0

\* the crawl reached DONE: the loop broke at the fixpoint and the report was written
Done == pc = "done" /\ ~cancelled

\* the Frontier is empty and no dequeued item is being processed
Drained == queue = << >> /\ InFlight = {}

(***************************************************************************)
(* C1  Dedup.  No canonical URL is ever fetched twice, every fetched or    *)
(* queued URL is in the VisitedSet, no canonical URL is queued twice or    *)
(* queued after its fetch, and when the crawl is DONE every canonical URL  *)
(* of the VisitedSet was fetched exactly once (failed ones included).      *)
(***************************************************************************)
C1_Dedup ==
    /\ \A u \in DOMAIN fetch_count : fetch_count[u] = 1 /\ u \in visited_urls
    /\ \A i, j \in DOMAIN queue :
          _normalize_url(queue[i]) = _normalize_url(queue[j]) => i = j
    /\ \A i \in DOMAIN queue :
          /\ _normalize_url(queue[i]) \in visited_urls
          /\ Fetches(_normalize_url(queue[i])) = 0
    /\ Done => \A u \in visited_urls : Fetches(u) = 1

\* a crawl with two workers is DONE after a re-probe pass; /d/e, linked as /d/e?x=1 by
\* /a and as /d/e#frag by /a/_data (two pages that two workers process concurrently),
\* was fetched once, and so was ftp://x.test/c, whose fetch failed
C1_Witness ==
    /\ Done /\ max_workers = 2 /\ passes = 2 /\ start_url = Root
    /\ Fetches(PageDE) = 1
    /\ FtpC \in DOMAIN gathered_urls /\ gathered_urls[FtpC].code = "Error"
    /\ Fetches(FtpC) = 1


(***************************************************************************)
(* C2  Fixpoint termination.  The crawl reaches DONE after finitely many   *)
(* passes and probes finitely many directories: the directories it probes  *)
(* are directories of the site, so none lies deeper than the deepest URL   *)
(* of the site's link graph (the start URL included).                      *)
(***************************************************************************)
\* every URL the site links to, and the start URL
LinkGraph ==
    { Root, PageA, PageAData, PageDE, PageT, FtpC, DirD, PageDG, PageDH, PageB, PageD,
      PageFG, PageHI, start_url }

Deepest(urls) == CHOOSE n \in { Len(u.segs) : u \in urls } :
                     \A u \in urls : Len(u.segs) <= n

C2_ProbesStayInSite ==
    \A d \in checked_for_listing : Len(d.segs) <= Deepest(LinkGraph)

(***************************************************************************)
(* C3  Every per-URL failure (a transport error or timeout, an exception   *)
(* raised while dispatching, such as the one of the title heuristic)       *)
(* leaves an error-status PageResult for the URL in the map and in the     *)
(* sitemap, and enqueues no link.                                          *)
(***************************************************************************)
\* the processing of url fails: the fetch failed or the dispatch raises
Fails(url) ==
    \/ http_request(url).response_code = "Error"
    \/ DispatchRaises(http_request(url))

\* the key path of the node of a URL: line 44, and "/" for the root
NodePath(url) == IF PathSegments(url) = << >> THEN << "/" >> ELSE PathSegments(url)

\* the sitemap holds url_data for u at the node of u
HoldsLeaf(sm, u) ==
    /\ Append(NodePath(u), "_data") \in DOMAIN sm
    /\ sm[Append(NodePath(u), "_data")].url = u

\* worker w finishes the item it holds in this step (it is not being cancelled)
Finishes(w) ==
    /\ workers[w].pc = "fetch" /\ w \notin cancel_req
    /\ workers'[w].pc # "fetch"

C3_FailureRecorded ==
    [][\A w \in DOMAIN workers :
         (Finishes(w) /\ Fails(workers[w].url)) =>
            LET u == _normalize_url(workers[w].url) IN
            /\ u \in DOMAIN gathered_urls'
            /\ gathered_urls'[u].code = "Error"
            /\ HoldsLeaf(sitemap', u)
            /\ visited_urls' = visited_urls
            /\ queue' = queue]_vars

JoinReturned ==
    /\ pc = "join" /\ ~cancelled'
    /\ (pc' = "shutdown" \/ passes' = passes + 1)

C5_JoinBarrier ==
    [][(JoinReturned \/ checked_for_listing' # checked_for_listing) => Drained]_vars

\* join() returned after the first pass and a re-probe pass is running with two workers
\* per pass
C5_Witness ==
    /\ passes = 2 /\ max_workers = 2 /\ start_url = Root
    /\ checked_for_listing = {DirD}
    /\ InFlight # {}

(***************************************************************************)
(* C6  Concurrency cap.  At every moment the number of live worker tasks   *)
(* and the number of fetches in flight are at most max_workers.            *)
(***************************************************************************)
C6_ConcurrencyCap ==
    /\ Cardinality(LiveWorkers) <= max_workers
    /\ Cardinality(InFlight) <= max_workers

(***************************************************************************)
(* C7  Shutdown.  When shutdown() has returned, every worker task ever     *)
(* created has terminated.                                                 *)
(***************************************************************************)
C7_ShutdownStopsAll == pc = "done" => LiveWorkers = {}

(***************************************************************************)
(* C8  Cancellation.  From the user interrupt to the report, no URL is     *)
(* added to the VisitedSet or the Frontier, no item is completed (no       *)
(* PageResult is inserted), and the sitemap stays as it was at the         *)
(* interrupt.                                                              *)
(***************************************************************************)
C8_CancelFreezes ==
    [][(cancelled /\ pc = "shutdown") =>
          /\ visited_urls' = visited_urls
          /\ Range(queue') \subseteq Range(queue)
          /\ gathered_urls' = gathered_urls
          /\ sitemap' = sitemap]_vars

(***************************************************************************)
(* C9  Atomic insertion.  In every state the map and the sitemap agree:    *)
(* the node of every URL of the URL-to-PageResult map is in the sitemap    *)
(* and holds a PageResult, and every PageResult of the sitemap is that of  *)
(* a URL of the map.                                                       *)
(***************************************************************************)
\* the sitemap has the dict of the node of u, and a url_data under its "_data" key
HasRecordedNode(sm, u) ==
    /\ NodePath(u) \in DOMAIN sm
    /\ Append(NodePath(u), "_data") \in DOMAIN sm
    /\ sm[Append(NodePath(u), "_data")].kind = "data"

C9_MapAndTreeAgree ==
    /\ \A u \in DOMAIN gathered_urls : HasRecordedNode(sitemap, u)
    /\ \A q \in DOMAIN sitemap :
          sitemap[q].kind = "data" => sitemap[q].url \in DOMAIN gathered_urls

(***************************************************************************)
(* C10  Same-domain invariant.  Every URL enqueued or fetched has the host *)
(* of the start URL and an http(s) scheme and, but for the seed, carries   *)
(* no fragment.                                                            *)
(***************************************************************************)
C10_SameDomain ==
    \A u \in visited_urls \cup Range(queue) \cup { workers[w].url : w \in InFlight } :
        /\ u.host = start_url.host
        /\ u.scheme \in {"http", "https"}
        /\ (u # start_url => u.fragment = "")

(***************************************************************************)
(* C11  The VisitedSet only grows: no step removes a URL from it.  Its     *)
(* test-and-insert is atomic: after the seed, the URLs a step puts on the  *)
(* Frontier are exactly the canonical URLs the same step adds to the       *)
(* VisitedSet, each put once, so no URL is found absent twice.             *)
(***************************************************************************)
\* the items the step puts on the queue
Appended ==
    IF Len(queue') > Len(queue) THEN SubSeq(queue', Len(queue) + 1, Len(queue'))
    ELSE << >>

C11_VisitedGrows ==
    [][/\ visited_urls \subseteq visited_urls'
       /\ pc # "start" =>
            /\ { _normalize_url(x) : x \in Range(Appended) } = visited_urls' \ visited_urls
            /\ Len(Appended) = Cardinality(visited_urls' \ visited_urls)]_vars

\* two workers fetched /a and /a/_data concurrently, both of which link to /d/e; the
\* first has finished and inserted /d/e, the second still holds its page
C11_Witness ==
    /\ max_workers = 2 /\ passes = 1 /\ site = "main"
    /\ PageA \in DOMAIN gathered_urls /\ PageDE \in visited_urls
    /\ \E w \in InFlight : workers[w].url = PageAData
(***************************************************************************)
(* C12  Every URL on the Frontier is canonical (it has no query and no     *)
(* fragment) and is a member of the VisitedSet: the seed, the links put by *)
(* the workers and the directories put by the probing step.                *)
(***************************************************************************)
C12_FrontierCanonical ==
    \A i \in DOMAIN queue :
        /\ queue[i] = _normalize_url(queue[i])
        /\ queue[i] \in visited_urls
(***************************************************************************)
(* C13  The Technology map is merged first-writer-wins: once a signal name *)
(* has a value, no later response changes it, so the final map holds for   *)
(* every name the value of the response merged first.                      *)
(***************************************************************************)
C13_FirstWriterWins ==
    [][\A name \in DOMAIN technologies :
          /\ name \in DOMAIN technologies'
          /\ technologies'[name] = technologies[name]]_vars
(***************************************************************************)
(* The sitemap alone: lines 108-110 of the worker applied to pages given   *)
(* in any order, whatever crawl produced them.                             *)
(***************************************************************************)
\* the canonical URLs inserted: the root, pages, and the same paths with a trailing "/"
TreeUrls == { Root, PageA, X(<<"a">>, TRUE), PageAB, PageB }

TreeCodes == { "200", "404" }

InitSitemap ==
    /\ Init
    /\ start_url = Root /\ site = "main" /\ timeouts = {} /\ max_workers = 1
    /\ keywords = << >>

\* lines 108-110: self.gathered_urls[canonical_url] = url_data; _add_to_sitemap(...)
InsertPage(canonical_url, code) ==
    LET url_data == UrlData(code, IF code = "200" THEN "html" ELSE "error", canonical_url,
                            << >>)
    IN
    /\ canonical_url \notin DOMAIN gathered_urls
    /\ sitemap' = _add_to_sitemap(sitemap, canonical_url, url_data)
    /\ gathered_urls' = Aliased((canonical_url :> url_data) @@ gathered_urls,
                                _add_to_sitemap(sitemap, canonical_url, url_data))
    /\ UNCHANGED << frames, manager_vars, keywords, handed, dispatched, call, result, start_url, max_workers, timeouts, site, queue, unfinished, visited_urls,
                    checked_for_listing, worker_tasks, workers, cancel_req, pc,
                    cancelled, passes, fetch_count, technologies >>

NextSitemap == \E canonical_url \in TreeUrls, code \in TreeCodes : InsertPage(canonical_url, code)

SpecSitemap == InitSitemap /\ [][NextSitemap]_vars

\* the tree after the pages of `pages` are inserted in the order `order`
RECURSIVE InsertAll(_, _, _)
InsertAll(sm, pages, order) ==
    IF order = << >> THEN sm
    ELSE InsertAll(_add_to_sitemap(sm, Head(order), pages[Head(order)]), pages, Tail(order))

(***************************************************************************)
(* C14  Sitemap insertion is order-independent: the tree that holds a set  *)
(* of pages with distinct canonical URLs is the tree every insertion order *)
(* of these pages yields.                                                  *)
(***************************************************************************)
C14_OrderIndependent ==
    \A order \in Perms(DOMAIN gathered_urls) :
        InsertAll(<< >>, gathered_urls, order) = sitemap
(***************************************************************************)
(* C15  One leaf record per discovered URL: whenever the Frontier is       *)
(* drained, the tree node at the path of every URL of the URL-to-          *)
(* PageResult map holds exactly that URL's PageResult as its leaf data,    *)
(* and the tree holds as many leaf records as the map has URLs (the total  *)
(* the report prints).                                                     *)
(***************************************************************************)
\* the key paths of the url_data dicts of the tree
LeafRecords(sm) == { q \in DOMAIN sm : sm[q].kind = "data" }

C15_OneLeafPerUrl ==
    Drained =>
        /\ \A u \in DOMAIN gathered_urls :
              /\ Append(NodePath(u), "_data") \in DOMAIN sitemap
              /\ sitemap[Append(NodePath(u), "_data")] = gathered_urls[u]
        /\ Cardinality(LeafRecords(sitemap)) = Cardinality(DOMAIN gathered_urls)
(***************************************************************************)
(* _normalize_url on URL strings.  A URL string is the sequence of its     *)
(* tokens: the scheme as written, the host, then "/" and segment names,    *)
(* then "?" and "#" with what follows them.  urlparse cuts the string at   *)
(* its first "#", then at the first "?" before it, and lower-cases the     *)
(* scheme; urlunparse writes "?" and "#" only before a non-empty query and *)
(* fragment.                                                               *)
(***************************************************************************)
\* the largest number of path segments of the URL strings explored
MaxSegs == 2

\* the path of a URL as tokens
PathText(segs, slash) ==
    [i \in 1..(2 * Len(segs)) |-> IF i % 2 = 1 THEN "/" ELSE segs[i \div 2]]
        \o (IF slash THEN << "/" >> ELSE << >>)

QueryTexts == { << >>, << "?" >> } \cup { << "?", t >> : t \in { "x=1", "/", "?" } }

FragmentTexts == { << >>, << "#" >> } \cup { << "#", t >> : t \in { "frag", "/", "?", "#" } }

UrlTexts ==
    { << scheme, "x.test" >> \o PathText(segs, slash) \o q \o f :
        scheme \in { "http", "HTTP" },
        segs \in UNION { [1..n -> { "a", "b" }] : n \in 0..MaxSegs },
        slash \in BOOLEAN, q \in QueryTexts, f \in FragmentTexts }

\* the index of the first token t of text, Len(text) + 1 when there is none
Find(text, t) ==
    IF \E i \in DOMAIN text : text[i] = t
    THEN CHOOSE i \in DOMAIN text : text[i] = t /\ \A j \in 1..(i - 1) : text[j] # t
    ELSE Len(text) + 1

NotSlash(t) == t # "/"

urlparse(text) ==
    LET rest == SubSeq(text, 3, Len(text))
        url == SubSeq(rest, 1, Find(rest, "#") - 1)
        fragment == SubSeq(rest, Find(rest, "#") + 1, Len(rest))
        path == SubSeq(url, 1, Find(url, "?") - 1)
        query == SubSeq(url, Find(url, "?") + 1, Len(url))
    IN  Url(IF text[1] = "HTTP" THEN "http" ELSE text[1], text[2],
            SelectSeq(path, NotSlash), path # << >> /\ path[Len(path)] = "/",
            IF query = << >> THEN "" ELSE query[1],
            IF fragment = << >> THEN "" ELSE fragment[1])

urlunparse(u) ==
    << u.scheme, u.host >> \o PathText(u.segs, u.slash)
        \o (IF u.query # "" THEN << "?", u.query >> ELSE << >>)
        \o (IF u.fragment # "" THEN << "#", u.fragment >> ELSE << >>)

\* line 40, on the string
NormalizeText(text) == urlunparse(_normalize_url(urlparse(text)))

\* in this specification start_url and the members of visited_urls are URL strings
InitNormalize ==
    /\ start_url \in UrlTexts
    /\ visited_urls = {}
    /\ max_workers = 1 /\ timeouts = {} /\ site = "main"
    /\ queue = << >> /\ unfinished = 0
    /\ gathered_urls = << >> /\ sitemap = << >>
    /\ checked_for_listing = {} /\ worker_tasks = {} /\ workers = << >>
    /\ cancel_req = {} /\ pc = "start" /\ cancelled = FALSE /\ passes = 0
    /\ fetch_count = << >> /\ technologies = << >>
    /\ keywords = << >> /\ handed = << >> /\ dispatched = << >>
    /\ call = NoCall /\ result = NoCall
    /\ frames = << >>
    /\ NoManager

\* line 23: self.visited_urls = {self._normalize_url(start_url)}
NormalizeStart ==
    /\ visited_urls = {}
    /\ visited_urls' = { NormalizeText(start_url) }
    /\ UNCHANGED << frames, manager_vars, keywords, handed, dispatched, call, result, start_url, max_workers, timeouts, site, queue, unfinished, gathered_urls,
                    sitemap, checked_for_listing, worker_tasks, workers, cancel_req, pc,
                    cancelled, passes, fetch_count, technologies >>

\* lines 73 and 100: a URL that was normalized before it was queued is normalized again
NormalizeAgain ==
    /\ \E url \in visited_urls : visited_urls' = visited_urls \cup { NormalizeText(url) }
    /\ UNCHANGED << frames, manager_vars, keywords, handed, dispatched, call, result, start_url, max_workers, timeouts, site, queue, unfinished, gathered_urls,
                    sitemap, checked_for_listing, worker_tasks, workers, cancel_req, pc,
                    cancelled, passes, fetch_count, technologies >>

NextNormalize == NormalizeStart \/ NormalizeAgain

SpecNormalize == InitNormalize /\ [][NextNormalize]_vars

(***************************************************************************)
(* C16  Canonicalization is idempotent and strips exactly the query and    *)
(* the fragment: the canonical form of a URL is its own canonical form, it *)
(* has the scheme, host and path of the URL and no query or fragment, and  *)
(* every URL that differs from the URL only in query and fragment has the  *)
(* same canonical form.                                                    *)
(***************************************************************************)
\* the URL strings that differ from text only in query and fragment
SamePage(text) ==
    { << text[1], text[2] >> \o PathText(urlparse(text).segs, urlparse(text).slash) \o q \o f :
        q \in QueryTexts, f \in FragmentTexts }

C16_Canonical ==
    \A c \in visited_urls :
        /\ NormalizeText(c) = c
        /\ urlparse(c) = [urlparse(start_url) EXCEPT !.query = "", !.fragment = ""]
        /\ start_url \in SamePage(start_url)
        /\ \A t \in SamePage(start_url) : NormalizeText(t) = c

\* http://x.test/a/b/?x=1#? was normalized, and its normal form was normalized again
C16_Witness ==
    /\ start_url = << "http", "x.test", "/", "a", "/", "b", "/", "?", "x=1", "#", "?" >>
    /\ visited_urls = { << "http", "x.test", "/", "a", "/", "b", "/" >> }
(***************************************************************************)
(* C17  Scenario: seed http://x.test/, / links to /a, /a links to          *)
(* /b?x=1#frag, /b returns 404.  For every worker count the crawl never    *)
(* visits a URL other than /, /a and /b, and when it is DONE the           *)
(* VisitedSet is {/, /a, /b}, each was fetched once, the PageResult of /b  *)
(* has code 404 and no links were extracted from it, and the sitemap has   *)
(* leaves exactly at /, /a and /b, each holding its URL's PageResult.      *)
(***************************************************************************)
C17_Scenario ==
    site = "scenario" =>
        /\ visited_urls \subseteq { Root, PageA, PageB }
        /\ Done =>
              /\ visited_urls = { Root, PageA, PageB }
              /\ DOMAIN gathered_urls = { Root, PageA, PageB }
              /\ \A u \in { Root, PageA, PageB } : Fetches(u) = 1
              /\ gathered_urls[PageB].code = "404"
              /\ ExtractedLinks(http_request(PageB), PageB) = {}
              /\ LeafRecords(sitemap) =
                    { << "/", "_data" >>, << "a", "_data" >>, << "b", "_data" >> }
              /\ \A u \in { Root, PageA, PageB } :
                    sitemap[Append(NodePath(u), "_data")] = gathered_urls[u]

\* the scenario crawled to DONE by two workers
C17_Witness ==
    /\ site = "scenario" /\ max_workers = 2 /\ Done
    /\ PageB \in DOMAIN gathered_urls
(***************************************************************************)
(* C18  Fixpoint at DONE.  When the crawl is DONE every directory URL of   *)
(* the final sitemap is in the DirectoryProbeSet and its canonical form    *)
(* was fetched.  Whenever queue.join() returns, the loop leaves for DONE   *)
(* exactly when no directory URL of the sitemap is outside the             *)
(* DirectoryProbeSet, and otherwise adds exactly the new directory URLs to *)
(* the DirectoryProbeSet and starts the next pass.                         *)
(***************************************************************************)
DirectoriesProbed ==
    Done => \A d \in _get_all_directory_urls(sitemap, start_url) :
                /\ d \in checked_for_listing
                /\ Fetches(_normalize_url(d)) = 1

ProbingStep ==
    JoinReturned =>
        LET new == _get_all_directory_urls(sitemap, start_url) \ checked_for_listing IN
        IF new = {}
        THEN pc' = "shutdown" /\ passes' = passes /\ checked_for_listing' = checked_for_listing
        ELSE passes' = passes + 1 /\ checked_for_listing' = checked_for_listing \cup new

C18_FixpointAtDone == []DirectoriesProbed /\ [][ProbingStep]_vars

\* the crawl of the site "main" is DONE after the directory /d/ was probed
C18_Witness ==
    /\ Done /\ site = "main" /\ start_url = Root
    /\ DirD \in _get_all_directory_urls(sitemap, start_url)
    /\ checked_for_listing = { DirD } /\ Fetches(DirD) = 1
(***************************************************************************)
(* C19  Pass bound.  The number of re-probe passes (the passes after the   *)
(* first) never exceeds the maximum directory depth: the number of path    *)
(* segments of the deepest directory of the site and of the sitemap.       *)
(***************************************************************************)
\* the directories of the URLs of the site, and those the crawl has found or probed
Directories ==
    { DirOfPath([segs |-> u.segs, slash |-> u.slash]) : u \in LinkGraph }
        \cup { d.segs : d \in _get_all_directory_urls(sitemap, start_url) \cup checked_for_listing }

MaxDirectoryDepth ==
    CHOOSE n \in { Len(d) : d \in Directories } : \A d \in Directories : Len(d) <= n

C19_PassesWithinDepth == passes <= 1 + MaxDirectoryDepth

(***************************************************************************)
(* C19, amended.  The number of re-probe passes never exceeds the number   *)
(* of directory URLs in the DirectoryProbeSet: every re-probe pass adds at *)
(* least one new directory URL to it.                                      *)
(***************************************************************************)
C19_PassesWithinProbed == passes <= 1 + Cardinality(checked_for_listing)

\* the site "chain" in its second re-probe pass: /d/ and /f/, both of depth 1, were
\* probed one pass after the other
C19_Witness ==
    /\ site = "chain" /\ passes = 3
    /\ checked_for_listing = { DirD, DirF }
    /\ MaxDirectoryDepth = 1
(***************************************************************************)
(* C20  Read-only after DONE.  Once the crawl is DONE no step changes the  *)
(* VisitedSet, the Frontier, the sitemap, the URL-to-PageResult map, the   *)
(* Technology map or the DirectoryProbeSet, and no worker issues a fetch.  *)
(***************************************************************************)
C20_ReadOnlyAfterDone ==
    [][Done =>
          /\ visited_urls' = visited_urls /\ queue' = queue /\ unfinished' = unfinished
          /\ sitemap' = sitemap /\ gathered_urls' = gathered_urls
          /\ technologies' = technologies
          /\ checked_for_listing' = checked_for_listing
          /\ fetch_count' = fetch_count /\ InFlight' = InFlight]_vars

\* the crawl is DONE after a re-probe pass, and workers of the first pass are still
\* alive, waiting on the empty queue
C20_Witness ==
    /\ Done /\ passes = 2 /\ LiveWorkers # {}
    /\ queue = << >> /\ InFlight = {}
    /\ technologies # << >>

(***************************************************************************)
(* C21  SEEDED.  Before the first worker dequeues anything, the Frontier   *)
(* holds exactly the start URL (crawl() of src/src/crawler.py takes no     *)
(* additional seed paths and reads no robots.txt or sitemap, so there is   *)
(* no other seed), and every seed is a member of the VisitedSet.           *)
(***************************************************************************)
\* crawl() has put the seed and started the first pass; no worker has run yet
Seeded == passes = 1 /\ fetch_count = << >>

C21_Seeded ==
    Seeded =>
        /\ queue = << start_url >>
        /\ \A i \in DOMAIN queue : queue[i] \in visited_urls

(***************************************************************************)
(* C22  Each PageResult is created once and is immutable: the entry of a   *)
(* canonical URL in the URL-to-PageResult map is written at most once, and *)
(* once it is there no later step changes its code, content_type, url or   *)
(* keywords, the insertion of other URLs into the Sitemap Tree included.   *)
(***************************************************************************)
C22_PageResultImmutable ==
    [][\A u \in DOMAIN gathered_urls :
          /\ u \in DOMAIN gathered_urls'
          /\ gathered_urls'[u].code = gathered_urls[u].code
          /\ gathered_urls'[u].content_type = gathered_urls[u].content_type
          /\ gathered_urls'[u].url = gathered_urls[u].url
          /\ gathered_urls'[u].keywords = gathered_urls[u].keywords]_vars

(***************************************************************************)
(* C23  Dispatch rule.  When a worker finishes a URL whose response is     *)
(* successful and has a body: a content type containing "html" selects the *)
(* directory-listing extractor when the title contains "Index of /" and    *)
(* the HTML extractor otherwise; one containing "json" selects the JSON    *)
(* extractor; for any other content type no extractor runs and no link is  *)
(* enqueued, and a PageResult with the status and the content type of the  *)
(* response is recorded in the Sitemap Tree.                               *)
(***************************************************************************)
\* the response to the request for url is successful and has a body
Successful(url) ==
    /\ http_request(url).done /\ http_request(url).response_code = "200"
    /\ http_request(url).content # NoBody

\* the extractor the rule selects for the response to the request for url
Selected(url) ==
    LET response == http_request(url) IN
    IF response.content_type \in { "html", "xhtml+xml" }
    THEN IF response.content.title = "index" THEN "dir_listing" ELSE "html"
    ELSE IF response.content_type = "json" THEN "json" ELSE "none"

C23_DispatchRule ==
    [][\A w \in DOMAIN workers :
         LET u == _normalize_url(workers[w].url) IN
         (Finishes(w) /\ Successful(workers[w].url) /\ u \notin DOMAIN gathered_urls) =>
            /\ u \in DOMAIN dispatched'
            /\ dispatched'[u] = Selected(workers[w].url)
            /\ Selected(workers[w].url) = "none" =>
                  /\ queue' = queue /\ visited_urls' = visited_urls
                  /\ u \in DOMAIN gathered_urls'
                  /\ gathered_urls'[u].code = http_request(workers[w].url).response_code
                  /\ gathered_urls'[u].content_type = http_request(workers[w].url).content_type
                  /\ HoldsLeaf(sitemap', u)]_vars

(***************************************************************************)
(* The functions of parser.py alone: a call is drawn from the inputs       *)
(* below, and the step of the call puts what it returns into `result`.     *)
(***************************************************************************)
\* the largest number of anchors of a directory listing explored
MaxAnchors == 3

\* sub/  ../  ../../  ./  /  /abs  file.txt#f  ?C=N;O=D  ?x=1  #top  (empty)
\* http://other.test/a  mailto:m
SubRef == RelRef(0, FALSE, << "sub" >>, TRUE, "", "")

ParentRef == RelRef(1, FALSE, << >>, TRUE, "", "")

SortRef == RelRef(0, FALSE, << >>, FALSE, "C=N;O=D", "")

RootRef == AbsRef(<< >>, TRUE, "")

DirRefs ==
    { SubRef, ParentRef, SortRef, RootRef, EmptyRef,
      RelRef(2, FALSE, << >>, TRUE, "", ""),
      RelRef(0, TRUE, << >>, TRUE, "", ""),
      AbsRef(<< "abs" >>, FALSE, ""),
      RelRef(0, FALSE, << "file.txt" >>, FALSE, "", "f"),
      RelRef(0, FALSE, << >>, FALSE, "x=1", ""),
      RelRef(0, FALSE, << >>, FALSE, "", "top"),
      FullRef(Other), FullRef(Mail) }

\* the pages a listing is served at: /, /d/, /d and /d/e/
ListingBases == { Root, DirD, PageD, X(<< "d", "e" >>, TRUE) }

DirListingCalls ==
    { [fn |-> "dir_listing", base |-> b, anchors |-> A] :
        b \in ListingBases, A \in { S \in SUBSET DirRefs : Cardinality(S) <= MaxAnchors } }

(***************************************************************************)
(* JSON documents.  A value is a string (the reference it spells, `padded` *)
(* when blanks surround it), a number, a dict (its members, by key) or a   *)
(* list (its elements); a body may also be no JSON text at all.            *)
(***************************************************************************)
JStr(ref, padded) == [t |-> "str", ref |-> ref, padded |-> padded]

JNum == [t |-> "num"]

JDict(members) == [t |-> "dict", members |-> members]

JList(elements) == [t |-> "list", elements |-> elements]

\* a body json.loads() raises JSONDecodeError for
Unparsable == [t |-> "invalid"]

\* line 105
LINK_KEYS == { "href", "url", "src", "link", "guid", "uri", "path", "location" }

\* line 122: max_depth=10
max_depth == 10

\* lines 111-114: json.loads(content), {} when it raises JSONDecodeError
json_loads(body) == IF body = Unparsable THEN JDict(<< >>) ELSE body

\* line 150: `not self.data` (an empty dict or list, an empty string; the number of
\* the model is not 0)
Falsy(data) ==
    \/ data = JDict(<< >>) \/ data = JList(<< >>)
    \/ data.t = "str" /\ data.ref = EmptyRef /\ ~data.padded

\* item.startswith(...) on the string as it is written: blanks come first when padded
ItemLooksLikeUrl(item) == ~item.padded /\ LooksLikeUrl(item.ref)

\* a walk that stops one level early: it does not examine the containers at depth 10
RECURSIVE _find_urls_recursive_stops_early(_, _)
_find_urls_recursive_stops_early(data_structure, depth) ==
    IF depth >= max_depth THEN {}
    ELSE CASE data_structure.t = "dict" ->
                UNION { LET value == data_structure.members[key] IN
                        IF key \in LINK_KEYS /\ value.t = "str" THEN { value }
                        ELSE IF value.t \in { "dict", "list" }
                             THEN _find_urls_recursive_stops_early(value, depth + 1)
                             ELSE {} : key \in DOMAIN data_structure.members }
           [] data_structure.t = "list" ->
                UNION { LET item == data_structure.elements[i] IN
                        IF item.t \in { "dict", "list" }
                        THEN _find_urls_recursive_stops_early(item, depth + 1)
                        ELSE IF item.t = "str" /\ ItemLooksLikeUrl(item) THEN { item }
                             ELSE {} : i \in DOMAIN data_structure.elements }
           [] OTHER -> {}

\* lines 122-143: the strings found, from nesting depth `depth` on
RECURSIVE _find_urls_recursive(_, _)
_find_urls_recursive(data_structure, depth) ==
    IF depth > max_depth THEN {}
    ELSE CASE data_structure.t = "dict" ->
                UNION { LET value == data_structure.members[key] IN
                        IF key \in LINK_KEYS /\ value.t = "str" THEN { value }
                        ELSE IF value.t \in { "dict", "list" }
                             THEN _find_urls_recursive(value, depth + 1)
                             ELSE {} : key \in DOMAIN data_structure.members }
           [] data_structure.t = "list" ->
                UNION { LET item == data_structure.elements[i] IN
                        IF item.t \in { "dict", "list" }
                        THEN _find_urls_recursive(item, depth + 1)
                        ELSE IF item.t = "str" /\ ItemLooksLikeUrl(item) THEN { item }
                             ELSE {} : i \in DOMAIN data_structure.elements }
           [] OTHER -> {}

\* line 157: link.strip('",\'\\() \t\n\r'): the blanks around the reference go
strip(link) == link.ref

\* json_parser(content, base_url).internal_links, lines 145-173
json_parser_internal_links(body, base_url) ==
    IF Falsy(json_loads(body)) THEN {}
    ELSE json_internal_links(
            Body("none", { Anchor(strip(link), base_url) :
                              link \in _find_urls_recursive(json_loads(body), 0) }),
            base_url)

\* the largest nesting of containers around a string in the documents built below
MaxNest == 2

\* /p1  " /p1 "  https://other.test/p2  p3  ./p4  (empty)  http://x.test/p5#frag
JsonStrings ==
    { JStr(AbsRef(<< "p1" >>, FALSE, ""), FALSE),
      JStr(AbsRef(<< "p1" >>, FALSE, ""), TRUE),
      JStr(FullRef(Url("https", "other.test", << "p2" >>, FALSE, "", "")), FALSE),
      JStr(RelRef(0, FALSE, << "p3" >>, FALSE, "", ""), FALSE),
      JStr(RelRef(0, TRUE, << "p4" >>, FALSE, "", ""), FALSE),
      JStr(EmptyRef, FALSE),
      JStr(FullRef(Url("http", "x.test", << "p5" >>, FALSE, "", "frag")), FALSE) }

\* a value as the only member of a dict (under two link keys and another key) or the
\* only element of a list
Wrap(values) ==
    { JDict(key :> v) : key \in { "url", "href", "name" }, v \in values }
        \cup { JList(<< v >>) : v \in values }

RECURSIVE Nested(_)
Nested(n) == IF n = 0 THEN JsonStrings \cup { JNum } ELSE Wrap(Nested(n - 1))

\* {"url": "/p1"} inside n lists
RECURSIVE Deep(_)
Deep(n) ==
    IF n = 0 THEN JDict("url" :> JStr(AbsRef(<< "p1" >>, FALSE, ""), FALSE))
    ELSE JList(<< Deep(n - 1) >>)

\* ["/p1"] inside n lists
RECURSIVE DeepItem(_)
DeepItem(n) ==
    IF n = 0 THEN JList(<< JStr(AbsRef(<< "p1" >>, FALSE, ""), FALSE) >>)
    ELSE JList(<< DeepItem(n - 1) >>)

\* {"items": [{"url": "/p1"}, {"href": "https://other.test/p2"}]}
ScenarioDoc ==
    JDict("items" :> JList(<<
        JDict("url" :> JStr(AbsRef(<< "p1" >>, FALSE, ""), FALSE)),
        JDict("href" :> JStr(FullRef(Url("https", "other.test", << "p2" >>, FALSE, "", "")),
                             FALSE)) >>))

JsonBodies ==
    UNION { Nested(n) : n \in 0..MaxNest }
        \cup { Deep(n) : n \in (max_depth - 1)..(max_depth + 2) }
        \cup { DeepItem(n) : n \in (max_depth - 1)..(max_depth + 2) }
        \cup { ScenarioDoc, Unparsable, JDict(<< >>), JList(<< >>),
               JDict(("url" :> JStr(RelRef(0, FALSE, << "p3" >>, FALSE, "", ""), FALSE))
                     @@ ("data" :> JList(<< JStr(AbsRef(<< "p1" >>, FALSE, ""), FALSE),
                                            JNum >>))) }

\* the URLs a document is requested from: http://x.test/api and http://x.test/d/
JsonBases == { X(<< "api" >>, FALSE), DirD }

JsonCalls == { [fn |-> "json", base |-> b, body |-> d] : b \in JsonBases, d \in JsonBodies }

\* the longest text searched for keywords (the text "Admin Admin ADMIN" apart)
MaxText == 4

\* the texts over the characters a, A and b
Texts == UNION { [1..n -> { "a", "A", "b" }] : n \in 0..MaxText } \cup { AdminText }

\* the keywords a, aa, Ab, ba and admin
KeywordChoices == { << "a" >>, << "a", "a" >>, << "A", "b" >>, << "b", "a" >>, Admin }

\* the lists of at most two keywords
KeywordLists == UNION { [1..n -> KeywordChoices] : n \in 0..2 }

KeywordCalls ==
    { [fn |-> "keywords", text |-> t, keywords |-> k] : t \in Texts, k \in KeywordLists }

Calls == DirListingCalls \cup JsonCalls \cup KeywordCalls

InitParser ==
    /\ call \in Calls
    /\ result = NoCall
    /\ frames = << >>
    /\ NoManager
    /\ start_url = Root /\ visited_urls = {}
    /\ max_workers = 1 /\ timeouts = {} /\ site = "main"
    /\ queue = << >> /\ unfinished = 0
    /\ gathered_urls = << >> /\ sitemap = << >>
    /\ checked_for_listing = {} /\ worker_tasks = {} /\ workers = << >>
    /\ cancel_req = {} /\ pc = "start" /\ cancelled = FALSE /\ passes = 0
    /\ fetch_count = << >> /\ technologies = << >>
    /\ keywords = << >> /\ handed = << >> /\ dispatched = << >>

\* dir_listing_parser(content, base_url).internal_links, lines 188-213
DirListingLinks ==
    /\ call.fn = "dir_listing" /\ result = NoCall
    /\ result' = [fn |-> call.fn, links |->
            dir_listing_internal_links(
                Body("index", { Anchor(h, call.base) : h \in call.anchors }), call.base)]
    /\ UNCHANGED << frames, manager_vars, keywords, handed, dispatched, call, start_url, max_workers, timeouts,
                    site, queue, unfinished, visited_urls, gathered_urls, sitemap,
                    checked_for_listing, worker_tasks, workers, cancel_req, pc,
                    cancelled, passes, fetch_count, technologies >>

\* json_parser(content, base_url).internal_links, lines 107-173
JsonLinks ==
    /\ call.fn = "json" /\ result = NoCall
    /\ result' = [fn |-> call.fn, links |-> json_parser_internal_links(call.body, call.base)]
    /\ UNCHANGED << frames, manager_vars, keywords, handed, dispatched, call, start_url, max_workers, timeouts,
                    site, queue, unfinished, visited_urls, gathered_urls, sitemap,
                    checked_for_listing, worker_tasks, workers, cancel_req, pc,
                    cancelled, passes, fetch_count, technologies >>

\* parser.find_keywords(keywords): search_text_for_keywords(text, keywords), lines 6-18
FindKeywords ==
    /\ call.fn = "keywords" /\ result = NoCall
    /\ result' = [fn |-> call.fn, counts |-> search_text_for_keywords(call.text, call.keywords)]
    /\ UNCHANGED << frames, manager_vars, keywords, handed, dispatched, call, start_url, max_workers, timeouts,
                    site, queue, unfinished, visited_urls, gathered_urls, sitemap,
                    checked_for_listing, worker_tasks, workers, cancel_req, pc,
                    cancelled, passes, fetch_count, technologies >>

NextParser == DirListingLinks \/ JsonLinks \/ FindKeywords

SpecParser == InitParser /\ [][NextParser]_vars

(***************************************************************************)
(* C24  The directory-listing extractor returns exactly the resolved,      *)
(* fragment-stripped, same-host targets of the anchors of the page, except *)
(* the anchors it leaves out.  As claimed, the anchors left out are ../    *)
(* and every href that starts with ?; as amended, they are also the href   *)
(* / and the empty href.  For the anchors sub/, ../ and ?C=N;O=D the       *)
(* result is the single link base + sub/.                                  *)
(***************************************************************************)
\* the resolved, fragment-stripped, same-host targets of the anchors kept
Targets(base, anchors) ==
    { StripFragment(urljoin(base, h)) :
        h \in { g \in anchors : urljoin(base, g).host = base.host } }

\* the claim as written: ../ and the hrefs starting with ? are left out
C24_ListingLinksAsClaimed ==
    (result # NoCall /\ result.fn = "dir_listing") =>
        result.links = Targets(call.base,
            { h \in call.anchors : h # ParentRef /\ ~StartsWithQuestion(h) })

\* the claim as amended: /, the empty href, ../ and the hrefs starting with ? are left out
C24_ListingLinks ==
    (result # NoCall /\ result.fn = "dir_listing") =>
        /\ result.links = Targets(call.base,
              { h \in call.anchors :
                  h \notin { ParentRef, RootRef, EmptyRef } /\ ~StartsWithQuestion(h) })
        /\ call.anchors = { SubRef, ParentRef, SortRef } =>
              result.links = { [call.base EXCEPT !.segs = DirOfPath(call.base) \o << "sub" >>,
                                                 !.slash = TRUE] }

\* the listing at http://x.test/d/ with the anchors sub/, ../ and ?C=N;O=D
C24_Witness ==
    /\ result # NoCall /\ result.fn = "dir_listing"
    /\ call.base = DirD /\ call.anchors = { SubRef, ParentRef, SortRef }
    /\ result.links = { X(<< "d", "sub" >>, TRUE) }

(***************************************************************************)
(* C25  The JSON extractor returns exactly the same-host resolutions,      *)
(* against the requesting URL, of the string values under the link-like    *)
(* keys and of the list string elements that look like URLs or paths (they *)
(* start with http://, https://, / or ./); a body that is no JSON yields   *)
(* no link.  As claimed, at any nesting depth and for any such string; as  *)
(* amended, for the strings inside at most 10 containers below the top     *)
(* level value that are not empty.  The body                               *)
(* {"items":[{"url":"/p1"},{"href":"https://other.test/p2"}]} requested    *)
(* from http://x.test/api yields {http://x.test/p1}.                       *)
(***************************************************************************)
\* the strings of a value that are link candidates, each with the number of
\* containers between it and the value's own container
RECURSIVE Candidates(_, _)
Candidates(v, depth) ==
    CASE v.t = "dict" ->
            UNION { IF v.members[k].t = "str"
                    THEN IF k \in LINK_KEYS THEN { << v.members[k], depth >> } ELSE {}
                    ELSE Candidates(v.members[k], depth + 1) : k \in DOMAIN v.members }
      [] v.t = "list" ->
            UNION { IF v.elements[i].t = "str"
                    THEN IF ItemLooksLikeUrl(v.elements[i])
                         THEN { << v.elements[i], depth >> } ELSE {}
                    ELSE Candidates(v.elements[i], depth + 1) : i \in DOMAIN v.elements }
      [] OTHER -> {}

\* the same-host resolutions of a set of strings, without their fragments
Resolutions(base, strings) ==
    { StripFragment(urljoin(base, s.ref)) :
        s \in { r \in strings : urljoin(base, r.ref).host = base.host } }

\* the claim as written
C25_JsonLinksAsClaimed ==
    (result # NoCall /\ result.fn = "json") =>
        result.links = Resolutions(call.base, { c[1] : c \in Candidates(call.body, 0) })

\* the claim as amended
C25_JsonLinks ==
    (result # NoCall /\ result.fn = "json") =>
        /\ result.links = Resolutions(call.base,
              { c[1] : c \in { d \in Candidates(call.body, 0) :
                                  d[2] <= 10 /\ d[1].ref # EmptyRef } })
        /\ call.body = Unparsable => result.links = {}
        /\ (call.body = ScenarioDoc /\ call.base = X(<< "api" >>, FALSE)) =>
              result.links = { X(<< "p1" >>, FALSE) }

\* the scenario document was requested from http://x.test/api
C25_Witness ==
    /\ result # NoCall /\ result.fn = "json"
    /\ call.body = ScenarioDoc /\ call.base = X(<< "api" >>, FALSE)
    /\ result.links = { X(<< "p1" >>, FALSE) }

(***************************************************************************)
(* C26  findKeywords returns, for every requested keyword, the number of   *)
(* case-insensitive occurrences of the keyword in the text (occurrences    *)
(* that do not overlap one another), and leaves out every keyword whose    *)
(* count is zero; for the text "Admin Admin ADMIN" and the keywords        *)
(* ["admin"] the result is {"admin": 3}.                                   *)
(***************************************************************************)
\* two characters are the same letter, whatever their case
SameLetter(c, d) ==
    \/ c = d
    \/ \E pair \in { << "a", "A" >>, << "b", "B" >>, << "d", "D" >>, << "i", "I" >>,
                    << "m", "M" >>, << "n", "N" >> } :
          { c, d } = { pair[1], pair[2] }

\* the indexes of text at which the keyword occurs
OccursAt(text, keyword) ==
    { i \in 1..Len(text) :
        /\ i + Len(keyword) - 1 <= Len(text)
        /\ \A j \in 1..Len(keyword) : SameLetter(text[i + j - 1], keyword[j]) }

\* the largest number of occurrences of the keyword no two of which overlap
Occurrences(text, keyword) ==
    LET disjoint == { P \in SUBSET OccursAt(text, keyword) :
                        \A i, j \in P : i # j => (i + Len(keyword) <= j \/ j + Len(keyword) <= i) }
    IN  CHOOSE n \in 0..Len(text) :
            /\ \E P \in disjoint : Cardinality(P) = n
            /\ \A P \in disjoint : Cardinality(P) <= n

C26_KeywordCounts ==
    (result # NoCall /\ result.fn = "keywords") =>
        /\ DOMAIN result.counts =
              { call.keywords[i] : i \in { j \in DOMAIN call.keywords :
                                              Occurrences(call.text, call.keywords[j]) > 0 } }
        /\ \A keyword \in DOMAIN result.counts :
              result.counts[keyword] = Occurrences(call.text, keyword)
        /\ (call.text = AdminText /\ call.keywords = << Admin >>) =>
              result.counts = (Admin :> 3)

\* "admin" was searched in "Admin Admin ADMIN"
C26_Witness ==
    /\ result # NoCall /\ result.fn = "keywords"
    /\ call.text = AdminText /\ call.keywords = << Admin >>
    /\ result.counts = (Admin :> 3)

(***************************************************************************)
(* C27  Fetch method choice.  A URL is requested with HEAD when the last   *)
(* component of its path has an extension that is not one of .html, .htm,  *)
(* .php, .js, .css, .json, .xml, .svg (compared without regard to case),   *)
(* and with GET otherwise.  A URL fetched with HEAD enqueues no link and   *)
(* has no keyword counts, and it is recorded in the map and in the tree    *)
(* with the status and the content type of the response.                   *)
(***************************************************************************)
\* the URLs of the model that the rule fetches with HEAD: /img.png and /page.asp
\* (/DOC.HTML, /style.css and the paths without extension are fetched with GET)
FetchedWithHead(url) ==
    /\ ~url.slash /\ url.segs # << >>
    /\ url.segs[Len(url.segs)] \in { "img.png", "page.asp" }

C27_FetchMethod ==
    [][\A w \in DOMAIN workers :
         LET url == workers[w].url
             u == _normalize_url(workers[w].url)
         IN
         /\ (workers[w].pc = "get" /\ workers'[w].pc = "fetch") =>
               handed' = Append(handed,
                    [url |-> workers'[w].url,
                     method |-> IF FetchedWithHead(workers'[w].url) THEN "HEAD" ELSE "GET"])
         /\ (Finishes(w) /\ FetchedWithHead(url) /\ u \notin DOMAIN gathered_urls) =>
               /\ queue' = queue /\ visited_urls' = visited_urls
               /\ u \in DOMAIN gathered_urls'
               /\ gathered_urls'[u].code = Server(url).status
               /\ IsSuccess(Server(url).status) =>
                     gathered_urls'[u].content_type = Server(url).ctype
               /\ gathered_urls'[u].keywords = << >>
               /\ HoldsLeaf(sitemap', u)]_vars

\* with the keyword "admin": /DOC.HTML and /style.css were requested with GET,
\* /img.png and /page.asp with HEAD; both are recorded, and the link of /page.asp
\* to /hidden was never seen
C27_Witness ==
    /\ site = "files" /\ keywords = << Admin >>
    /\ \E i, j, k, l \in DOMAIN handed :
          /\ handed[i] = [url |-> DocHtml, method |-> "GET"]
          /\ handed[j] = [url |-> StyleCss, method |-> "GET"]
          /\ handed[k] = [url |-> ImgPng, method |-> "HEAD"]
          /\ handed[l] = [url |-> PageAsp, method |-> "HEAD"]
    /\ ImgPng \in DOMAIN gathered_urls /\ gathered_urls[ImgPng].content_type = "png"
    /\ PageAsp \in DOMAIN gathered_urls /\ gathered_urls[PageAsp].code = "200"
    /\ gathered_urls[PageAsp].keywords = << >>
    /\ gathered_urls[Root].keywords = (Admin :> 3)
    /\ Hidden \notin visited_urls

(***************************************************************************)
(* C28  Sitemap Tree shape.  After any insertions of discovered URLs, URLs *)
(* with a path segment named "_data" included, every key "_data" of the    *)
(* tree holds a PageResult record with exactly the fields code,            *)
(* content_type, url and keywords, and every other key of the tree holds a *)
(* child node.                                                             *)
(***************************************************************************)
\* the key path q is a key of the tree: every dict above it is a node
InTree(sm, q) == \A i \in 1..(Len(q) - 1) : sm[SubSeq(q, 1, i)].kind = "node"

\* the dict at q is a url_data dict and has no key besides its four fields (of the
\* four, 'keywords' alone holds a dict and so has a key path)
IsPageResult(sm, q) == sm[q].kind = "data" /\ Keys(sm, q) = { "keywords" }

C28_TreeShape ==
    \A q \in DOMAIN sitemap :
        InTree(sitemap, q) =>
            IF q[Len(q)] = "_data" THEN IsPageResult(sitemap, q)
            ELSE sitemap[q].kind = "node"

(***************************************************************************)
(* C29  The Frontier is first-in first-out.  URLs are handed to workers in *)
(* exactly the order in which they were enqueued: the URLs handed out so   *)
(* far, followed by the URLs that wait in the queue, are the URLs enqueued *)
(* so far in the order of their enqueueing, and a step only adds to the    *)
(* end of that sequence.  Nothing orders the completions of different      *)
(* workers: of two URLs handed out one after the other, the second may be  *)
(* recorded while the first is still being fetched.                        *)
(***************************************************************************)
\* the URLs in the order in which they are handed out: those handed out already,
\* then those that wait
HandingOrder(h, q) == [i \in DOMAIN h |-> h[i].url] \o q

C29_FrontierFifo ==
    [][IsPrefix(HandingOrder(handed, queue), HandingOrder(handed', queue'))]_vars

\* a URL was handed out (once) before another one; the later one is recorded while
\* the earlier one is still being fetched
C29_Witness ==
    \E i, j \in DOMAIN handed :
        /\ i < j
        /\ \E w \in DOMAIN workers :
              workers[w].pc = "fetch" /\ workers[w].url = handed[i].url
        /\ _normalize_url(handed[i].url) \notin DOMAIN gathered_urls
        /\ _normalize_url(handed[j].url) \in DOMAIN gathered_urls
        /\ _normalize_url(handed[j].url) # _normalize_url(handed[i].url)
        /\ \A k \in DOMAIN handed : handed[k].url = handed[i].url => k = i

(***************************************************************************)
(* C30  _get_all_directory_urls returns, for every node of the Sitemap     *)
(* Tree that has at least one child and for no other node, the URL         *)
(* scheme://host/seg1/.../segk/ made of the segments of the node's path    *)
(* from the site root, whatever the path of the start URL is.              *)
(***************************************************************************)
\* the nodes of the tree that have a child
DirectoryNodes(sm) ==
    { q \in DOMAIN sm : /\ InTree(sm, q) /\ sm[q].kind = "node" /\ q[Len(q)] # "_data"
                        /\ Children(sm, q) # {} }

\* the URL of the directory at key path q, from the root of the site of `start`
DirectoryUrlOf(start, q) == Url(start.scheme, start.host, q, TRUE, "", "")

C30_DirectoryUrls ==
    _get_all_directory_urls(sitemap, start_url)
        = { DirectoryUrlOf(start_url, q) : q \in DirectoryNodes(sitemap) }

Answers200WithBody(url) ==
    /\ Server(url).outcome = "ok" /\ Server(url).status = "200"
    /\ Server(url).body # NoBody /\ ~FetchedWithHead(url)

\* the server answers the request for url with a status that is not 2xx
AnswersNon2xx(url) == Server(url).outcome = "ok" /\ Server(url).status = "404"

C32_LinksOnlyFrom200 ==
    [][\A w \in DOMAIN workers :
         LET url == workers[w].url
             u == _normalize_url(workers[w].url)
         IN
         Finishes(w) =>
            /\ (queue' # queue \/ visited_urls' # visited_urls) => Answers200WithBody(url)
            /\ (AnswersNon2xx(url) /\ u \notin DOMAIN gathered_urls) =>
                  /\ queue' = queue /\ visited_urls' = visited_urls
                  /\ u \in DOMAIN gathered_urls'
                  /\ gathered_urls'[u].code = "404"
                  /\ HoldsLeaf(sitemap', u)]_vars

\* /seen (404) and /created (201) are recorded with their codes; the link of their
\* bodies to /hidden was never followed
C32_Witness ==
    /\ site = "files"
    /\ Seen \in DOMAIN gathered_urls /\ gathered_urls[Seen].code = "404"
    /\ HoldsLeaf(sitemap, Seen)
    /\ Created \in DOMAIN gathered_urls /\ gathered_urls[Created].code = "201"
    /\ Hidden \notin visited_urls
    /\ Seen \in visited_urls /\ Created \in visited_urls

(***************************************************************************)
(* C33  The Technology map is purely additive.  A fingerprint is merged    *)
(* only for a successful response: the map changes only in the step in     *)
(* which a worker processes a response with a 2xx status, and the names it *)
(* gains are signals of that response.  No signal name that is once in the *)
(* map is ever removed.                                                    *)
(***************************************************************************)
\* the signal names of the headers the server sends for url
SignalsOf(url) ==
    { INTERESTING_HEADERS[k] : k \in DOMAIN ServedHeaders(url) \cap DOMAIN INTERESTING_HEADERS }

C33_TechnologyAdditive ==
    [][/\ DOMAIN technologies \subseteq DOMAIN technologies'
       /\ technologies' # technologies =>
             \E w \in DOMAIN workers :
                /\ Finishes(w)
                /\ Server(workers[w].url).outcome = "ok"
                /\ Server(workers[w].url).status \in { "200", "201" }
                /\ DOMAIN technologies' \ DOMAIN technologies
                      \subseteq SignalsOf(workers[w].url)]_vars

\* / (Server) and /t (Server, X-Powered-By) were merged; /d/e was answered 404 with
\* a Via header, and the map holds no signal of it
C33_Witness ==
    /\ site = "main"
    /\ DOMAIN technologies = { "Server", "X-Powered-By" }
    /\ PageDE \in DOMAIN gathered_urls /\ gathered_urls[PageDE].code = "404"

(***************************************************************************)
(* C34  JSON recursion bound.  The walk of the JSON extractor examines the *)
(* containers at depth 0 to 10 below the top-level value and none deeper:  *)
(* the link /p1 under the key "url" of a dict, or as the element of a      *)
(* list, is extracted when that container lies inside at most 10 lists and *)
(* is not extracted when it lies inside 11 or more.  The walk of every     *)
(* document ends (each call returns its links).                            *)
(***************************************************************************)
C34_JsonDepthBound ==
    (result # NoCall /\ result.fn = "json") =>
        \A n \in 0..12 :
            (call.body = Deep(n) \/ call.body = DeepItem(n)) =>
                result.links = IF n <= 10 THEN { X(<< "p1" >>, FALSE) } ELSE {}

\* the link was found inside 10 lists
C34_Witness ==
    /\ result # NoCall /\ result.fn = "json"
    /\ call.body = Deep(10) /\ call.base = X(<< "api" >>, FALSE)
    /\ result.links = { X(<< "p1" >>, FALSE) }

(***************************************************************************)
(* check_sitemap_xml (src/src/robots_sitemap.py, lines 81-170) alone.  A   *)
(* sitemap document is a sitemap index (its <sitemap><loc> entries), a URL *)
(* set (its <url><loc> entries), a text that is no XML (the <loc>...</loc> *)
(* texts the regex finds in it), or missing (the request does not answer   *)
(* 200).  A loc is a URL; the loc /p6 has no host.                         *)
(***************************************************************************)
SitemapIndex(locs) == [t |-> "index", locs |-> locs]

UrlSet(locs) == [t |-> "urlset", locs |-> locs]

NotXml(locs) == [t |-> "not_xml", locs |-> locs]

NoSitemap == [t |-> "missing", locs |-> << >>]

\* a URL of the host other.test
Y(segs) == Url("http", "other.test", segs, FALSE, "", "")

\* the loc /p6: urlparse gives it the netloc ''
NoHost(segs) == Url("", "", segs, FALSE, "", "")

\* http://x.test/u.xml: pages of both hosts
PagesDoc == UrlSet(<< X(<< "p1" >>, FALSE), Y(<< "p2" >>), X(<< "p3" >>, FALSE) >>)

\* http://x.test/bad.xml: no XML, with <loc> texts
BadDoc == NotXml(<< X(<< "p4" >>, FALSE), Y(<< "p5" >>), NoHost(<< "p6" >>) >>)

\* http://other.test/o.xml
OtherDoc == UrlSet(<< X(<< "p7" >>, FALSE), Y(<< "p8" >>) >>)

\* the sets of sitemap documents of the model:
\*   "tree":  i.xml lists u.xml, bad.xml, http://other.test/o.xml and a missing file
\*   "self":  self.xml lists itself
\*   "twice": two.xml lists itself twice
\*   "pair":  a.xml lists b.xml, b.xml lists u.xml and a.xml
Webs == { "tree", "self", "twice", "pair" }

SitemapUrls ==
    { X(<< "i.xml" >>, FALSE), X(<< "u.xml" >>, FALSE), X(<< "bad.xml" >>, FALSE),
      Y(<< "o.xml" >>), X(<< "none.xml" >>, FALSE), X(<< "self.xml" >>, FALSE),
      X(<< "two.xml" >>, FALSE), X(<< "a.xml" >>, FALSE), X(<< "b.xml" >>, FALSE) }

\* lines 85-93: the document the request for sitemap_url answers with
SitemapAt(web, sitemap_url) ==
    CASE sitemap_url = X(<< "u.xml" >>, FALSE) /\ web \in { "tree", "pair" } -> PagesDoc
      [] sitemap_url = X(<< "bad.xml" >>, FALSE) /\ web = "tree" -> BadDoc
      [] sitemap_url = Y(<< "o.xml" >>) /\ web = "tree" -> OtherDoc
      [] sitemap_url = X(<< "i.xml" >>, FALSE) /\ web = "tree" ->
            SitemapIndex(<< X(<< "u.xml" >>, FALSE), X(<< "bad.xml" >>, FALSE),
                            Y(<< "o.xml" >>), X(<< "none.xml" >>, FALSE) >>)
      [] sitemap_url = X(<< "self.xml" >>, FALSE) /\ web = "self" ->
            SitemapIndex(<< X(<< "self.xml" >>, FALSE) >>)
      [] sitemap_url = X(<< "two.xml" >>, FALSE) /\ web = "twice" ->
            SitemapIndex(<< X(<< "two.xml" >>, FALSE), X(<< "two.xml" >>, FALSE) >>)
      [] sitemap_url = X(<< "a.xml" >>, FALSE) /\ web = "pair" ->
            SitemapIndex(<< X(<< "b.xml" >>, FALSE) >>)
      [] sitemap_url = X(<< "b.xml" >>, FALSE) /\ web = "pair" ->
            SitemapIndex(<< X(<< "u.xml" >>, FALSE), X(<< "a.xml" >>, FALSE) >>)
      [] OTHER -> NoSitemap

\* the calls of check_sitemap_xml(sitemap_url, http_request_func, base_domain=...)
SitemapCalls ==
    { [fn |-> "sitemap", web |-> w, sitemap_url |-> u, base_domain |-> d] :
        w \in Webs, u \in SitemapUrls, d \in { "x.test", "other.test" } }

\* how many of the nested calls the model keeps, the innermost ones; the code has no
\* limit of its own
MaxFrames == 4

\* a call of check_sitemap_xml: it awaits the response ("request") or walks the
\* <sitemap> tags of an index of which `pending` are left; `urls` is its list; `outer`
\* tells that it has callers the model no longer keeps
Frame(sitemap_url) ==
    [sitemap_url |-> sitemap_url, pc |-> "request", pending |-> << >>, urls |-> << >>,
     outer |-> FALSE]

\* the innermost call is the first call, which returns to the caller of the resolver
Outermost(fs) == Len(fs) = 1 /\ ~fs[1].outer

\* the call stack after one more call: of more than MaxFrames calls the innermost
\* MaxFrames are kept
Push(fs, frame) ==
    IF Len(fs) < MaxFrames THEN Append(fs, frame)
    ELSE Append([Tail(fs) EXCEPT ![1].outer = TRUE], frame)

\* lines 129-138 and 152-159: the locs whose netloc is base_domain, in their order
RECURSIVE SameDomain(_, _)
SameDomain(locs, base_domain) ==
    IF locs = << >> THEN << >>
    ELSE (IF Head(locs).host = base_domain THEN << Head(locs) >> ELSE << >>)
            \o SameDomain(Tail(locs), base_domain)

\* `return urls` of the innermost call: the caller extends its list (line 124), or
\* the resolution is over
Return(fs, urls) ==
    IF Len(fs) = 1 THEN << >>
    ELSE [SubSeq(fs, 1, Len(fs) - 1) EXCEPT ![Len(fs) - 1].urls = @ \o urls]

InitSitemapXml ==
    /\ call \in SitemapCalls
    /\ result = NoCall
    /\ frames = << >>
    /\ NoManager
    /\ start_url = Root /\ visited_urls = {}
    /\ max_workers = 1 /\ timeouts = {} /\ site = "main"
    /\ queue = << >> /\ unfinished = 0 /\ gathered_urls = << >> /\ sitemap = << >>
    /\ checked_for_listing = {} /\ worker_tasks = {} /\ workers = << >>
    /\ cancel_req = {} /\ pc = "start" /\ cancelled = FALSE /\ passes = 0
    /\ fetch_count = << >> /\ technologies = << >>
    /\ keywords = << >> /\ handed = << >> /\ dispatched = << >>

\* lines 81-85: check_sitemap_xml is called and requests the document
SitemapCalled ==
    /\ call.fn = "sitemap" /\ result = NoCall /\ frames = << >>
    /\ frames' = << Frame(call.sitemap_url) >>
    /\ UNCHANGED << manager_vars, keywords, handed, dispatched, call, result, start_url,
                    max_workers, timeouts, site, queue, unfinished, visited_urls,
                    gathered_urls, sitemap, checked_for_listing, worker_tasks, workers,
                    cancel_req, pc, cancelled, passes, fetch_count, technologies >>

\* lines 85-164: the response arrives.  No 200: return [].  An index: its <sitemap>
\* tags are walked next.  A URL set, or no XML: the same-domain locs are returned.
SitemapResponse ==
    /\ frames # << >> /\ frames[Len(frames)].pc = "request"
    /\ LET doc == SitemapAt(call.web, frames[Len(frames)].sitemap_url)
           urls == SameDomain(doc.locs, call.base_domain)
       IN
       IF doc.t = "index"
       THEN /\ frames' = [frames EXCEPT ![Len(frames)].pc = "index",
                                        ![Len(frames)].pending = doc.locs]
            /\ UNCHANGED result
       ELSE /\ Len(frames) = 1 => Outermost(frames)
            /\ frames' = Return(frames, urls)
            /\ result' = IF Outermost(frames) THEN [fn |-> "sitemap", urls |-> urls]
                         ELSE result
    /\ UNCHANGED << manager_vars, keywords, handed, dispatched, call, start_url,
                    max_workers, timeouts, site, queue, unfinished, visited_urls,
                    gathered_urls, sitemap, checked_for_listing, worker_tasks, workers,
                    cancel_req, pc, cancelled, passes, fetch_count, technologies >>

\* lines 114-123: check_sitemap_xml is called for the loc of the next <sitemap> tag
SitemapRecurses ==
    /\ frames # << >> /\ frames[Len(frames)].pc = "index"
    /\ frames[Len(frames)].pending # << >>
    /\ frames' = Push([frames EXCEPT ![Len(frames)].pending = Tail(@)],
                      Frame(Head(frames[Len(frames)].pending)))
    /\ UNCHANGED << manager_vars, keywords, handed, dispatched, call, result, start_url,
                    max_workers, timeouts, site, queue, unfinished, visited_urls,
                    gathered_urls, sitemap, checked_for_listing, worker_tasks, workers,
                    cancel_req, pc, cancelled, passes, fetch_count, technologies >>

\* line 164: the <sitemap> tags of an index are done, its list is returned
SitemapIndexDone ==
    /\ frames # << >> /\ frames[Len(frames)].pc = "index"
    /\ frames[Len(frames)].pending = << >>
    /\ Len(frames) = 1 => Outermost(frames)
    /\ frames' = Return(frames, frames[Len(frames)].urls)
    /\ result' = IF Outermost(frames)
                 THEN [fn |-> "sitemap", urls |-> frames[Len(frames)].urls]
                 ELSE result
    /\ UNCHANGED << manager_vars, keywords, handed, dispatched, call, start_url,
                    max_workers, timeouts, site, queue, unfinished, visited_urls,
                    gathered_urls, sitemap, checked_for_listing, worker_tasks, workers,
                    cancel_req, pc, cancelled, passes, fetch_count, technologies >>

NextSitemapXml == SitemapCalled \/ SitemapResponse \/ SitemapRecurses \/ SitemapIndexDone

SpecSitemapXml == InitSitemapXml /\ [][NextSitemapXml]_vars

\* the coroutine is resumed whenever it can take a step
FairSitemapXml == SpecSitemapXml /\ WF_vars(NextSitemapXml)

(***************************************************************************)
(* C35  check_sitemap_xml terminates and returns a flat list that holds    *)
(* only URLs whose host is the given base domain, for every finite set of  *)
(* sitemap documents: sitemap indexes that list themselves or each other,  *)
(* and documents that are no XML and are scanned for <loc>, included.      *)
(***************************************************************************)
\* the call has returned
SitemapReturned == result # NoCall /\ result.fn = "sitemap"

C35_SitemapResolverTerminates ==
    /\ <>SitemapReturned
    /\ [](SitemapReturned =>
            \A i \in DOMAIN result.urls : result.urls[i].host = call.base_domain)

(***************************************************************************)
(* C36  The DirectoryProbeSet only grows and no directory is probed twice: *)
(* a directory URL, once in the set, is never removed (so it is added at   *)
(* most once); it is enqueued into the Frontier at most once, and the step *)
(* that adds it to the set does not enqueue it when its canonical form is  *)
(* already in the VisitedSet.                                              *)
(***************************************************************************)
\* how many times the URL d was enqueued, q being the URLs enqueued so far
TimesEnqueued(q, d) == Cardinality({ i \in DOMAIN q : q[i] = d })

C36_ProbeSetGrows ==
    [][/\ checked_for_listing \subseteq checked_for_listing'
       /\ \A d \in checked_for_listing' :
             TimesEnqueued(HandingOrder(handed', queue'), d) <= 1
       /\ \A d \in checked_for_listing' \ checked_for_listing :
             TimesEnqueued(HandingOrder(handed', queue'), d)
                = IF _normalize_url(d) \in visited_urls
                  THEN TimesEnqueued(HandingOrder(handed, queue), d)
                  ELSE 1]_vars

\* /s/ was found as a link and fetched in the first pass; the probing step added it to
\* the DirectoryProbeSet and did not enqueue it again
C36_Witness ==
    /\ site = "listed" /\ pc = "done"
    /\ checked_for_listing = { DirS }
    /\ TimesEnqueued(HandingOrder(handed, queue), DirS) = 1
    /\ Fetches(DirS) = 1

(***************************************************************************)
(* The module manager (src/src/modules/module_manager.py).  A module file  *)
(* holds one subclass of BaseModule; what its setup, run and cleanup do is *)
(* a property of the file, so every instance made from it behaves alike.   *)
(* An instance is an object on the heap: `instances` maps its identity to  *)
(* its fields, and the manager's dictionary and list hold identities, as   *)
(* `in` and `remove` compare BaseModule objects by identity.               *)
(***************************************************************************)
\* the files of the modules directory; metadata.name is the file's name in both
ModuleFiles == { "headers", "wordlist" }

\* the names a caller passes; no file is called absent
ModuleNames == ModuleFiles \cup { "absent" }

\* how many instances the calls of load_module make at most
MaxInstances == 3

\* what a module file's methods do: setup returns True or False or raises, run returns
\* or raises (it is only reached when setup returned True), cleanup returns or raises
Behaviours ==
    { b \in [setup : { "true", "false", "raises" }, run : { "returns", "raises" },
             cleanup : { "returns", "raises" }] :
        b.setup # "true" => b.run = "returns" }

\* example.py 73-76: a new instance is enabled
BaseModule(name) == [name |-> name, enabled |-> TRUE]

\* the instances a list holds
Instances(list) == { list[i] : i \in DOMAIN list }

\* list.remove(x): the first occurrence goes
RECURSIVE remove(_, _)
remove(list, x) ==
    IF list = << >> THEN << >>
    ELSE IF Head(list) = x THEN Tail(list)
    ELSE << Head(list) >> \o remove(Tail(list), x)

\* one call of a method of a module instance
Called(id, method) == [id |-> id, name |-> instances[id].name, method |-> method]

\* a call of a method of the manager and the value it returned
Returned(fn, value) == [fn |-> fn, value |-> value, raised |-> FALSE]

None == [none |-> TRUE]

InitModules ==
    /\ behaviour \in [ModuleFiles -> Behaviours]
    /\ available_modules = << >> /\ loaded_modules = << >> /\ instances = << >>
    /\ module_log = << >> /\ module_results = NoCall /\ disabled = {}
    /\ call = NoCall /\ result = NoCall /\ frames = << >>
    /\ start_url = Root /\ visited_urls = {}
    /\ max_workers = 1 /\ timeouts = {} /\ site = "main"
    /\ queue = << >> /\ unfinished = 0 /\ gathered_urls = << >> /\ sitemap = << >>
    /\ checked_for_listing = {} /\ worker_tasks = {} /\ workers = << >>
    /\ cancel_req = {} /\ pc = "start" /\ cancelled = FALSE /\ passes = 0
    /\ fetch_count = << >> /\ technologies = << >>
    /\ keywords = << >> /\ handed = << >> /\ dispatched = << >>

\* what no method of the manager touches
crawl_vars == << start_url, max_workers, timeouts, site, queue, unfinished, visited_urls,
                 gathered_urls, sitemap, checked_for_listing, worker_tasks, workers,
                 cancel_req, pc, cancelled, passes, fetch_count, technologies, keywords,
                 handed, dispatched, call, result, frames >>

\* lines 50-104: no file of that name: None.  Otherwise a new instance of the file's
\* class is made and registered under the name, whatever was registered before.
load_module(module_name) ==
    /\ Len(instances) < MaxInstances
    /\ IF module_name \notin ModuleFiles
       THEN /\ module_results' = Returned("load_module", None)
            /\ UNCHANGED << instances, available_modules >>
       ELSE LET instance == Len(instances) + 1 IN
            /\ instances' = Append(instances, BaseModule(module_name))
            /\ available_modules' = (module_name :> instance) @@ available_modules
            /\ module_results' = Returned("load_module", instance)
    /\ module_log' = << >>
    /\ UNCHANGED << loaded_modules, behaviour, disabled, crawl_vars >>

\* lines 122-130
enable_module(module_name) ==
    /\ IF module_name \in DOMAIN available_modules
       THEN LET module == available_modules[module_name] IN
            /\ instances' = [instances EXCEPT ![module].enabled = TRUE]
            /\ loaded_modules' = IF module \notin Instances(loaded_modules)
                                 THEN Append(loaded_modules, module)
                                 ELSE loaded_modules
            /\ disabled' = disabled \ { module_name }
            /\ module_results' = Returned("enable_module", TRUE)
       ELSE /\ module_results' = Returned("enable_module", FALSE)
            /\ UNCHANGED << instances, loaded_modules, disabled >>
    /\ module_log' = << >>
    /\ UNCHANGED << available_modules, behaviour, crawl_vars >>

\* lines 132-140
disable_module(module_name) ==
    /\ IF module_name \in DOMAIN available_modules
       THEN LET module == available_modules[module_name] IN
            /\ instances' = [instances EXCEPT ![module].enabled = FALSE]
            /\ loaded_modules' = IF module \in Instances(loaded_modules)
                                 THEN remove(loaded_modules, module)
                                 ELSE loaded_modules
            /\ disabled' = disabled \cup { module_name }
            /\ module_results' = Returned("disable_module", TRUE)
       ELSE /\ module_results' = Returned("disable_module", FALSE)
            /\ UNCHANGED << instances, loaded_modules, disabled >>
    /\ module_log' = << >>
    /\ UNCHANGED << available_modules, behaviour, crawl_vars >>

\* lines 186-217: one pass of the loop of run_modules for an enabled module: the calls
\* it makes.  The finally clause calls cleanup on every path, the continue included.
ModuleCalls(module) ==
    LET b == behaviour[instances[module].name] IN
    << Called(module, "setup") >>
       \o (IF b.setup = "true" THEN << Called(module, "run") >> ELSE << >>)
       \o << Called(module, "cleanup") >>

\* lines 186-210: what that pass leaves in results, keyed by metadata.name: nothing
\* when setup returned False
ModuleResult(module, results) ==
    LET name == instances[module].name
        b == behaviour[name]
    IN  CASE b.setup = "false" -> results
          [] b.setup = "raises" -> (name :> [success |-> FALSE, error |-> "setup"]) @@ results
          [] b.run = "raises" -> (name :> [success |-> FALSE, error |-> "run"]) @@ results
          [] OTHER -> (name :> [success |-> TRUE, data |-> name]) @@ results

\* lines 180-219: the loop over loaded_modules, from position i on
RECURSIVE RunFrom(_, _, _)
RunFrom(i, log, results) ==
    IF i > Len(loaded_modules) THEN [log |-> log, results |-> results]
    ELSE IF ~instances[loaded_modules[i]].enabled THEN RunFrom(i + 1, log, results)
    ELSE RunFrom(i + 1, log \o ModuleCalls(loaded_modules[i]),
                 ModuleResult(loaded_modules[i], results))

\* lines 170-219
run_modules ==
    /\ LET done == RunFrom(1, << >>, << >>) IN
       /\ module_log' = done.log
       /\ module_results' = Returned("run_modules", done.results)
    /\ UNCHANGED << available_modules, loaded_modules, instances, behaviour, disabled,
                    crawl_vars >>

\* lines 242-266: the calls run_single_module makes: after run returned, cleanup is
\* called at line 252, and the finally clause calls it on every path
SingleCalls(module) ==
    LET b == behaviour[instances[module].name] IN
    << Called(module, "setup") >>
       \o (IF b.setup = "true" THEN << Called(module, "run") >> ELSE << >>)
       \o (IF b.setup = "true" /\ b.run = "returns"
           THEN << Called(module, "cleanup") >> ELSE << >>)
       \o << Called(module, "cleanup") >>

\* lines 245-260: what run_single_module returns; an exception of the cleanup of line
\* 252 is caught like one of setup or run
SingleResult(module) ==
    LET name == instances[module].name
        b == behaviour[name]
    IN  CASE b.setup = "false" -> None
          [] b.setup = "raises" -> [success |-> FALSE, error |-> "setup"]
          [] b.run = "raises" -> [success |-> FALSE, error |-> "run"]
          [] b.cleanup = "raises" -> [success |-> FALSE, error |-> "cleanup"]
          [] OTHER -> [success |-> TRUE, data |-> name]

\* lines 221-266
run_single_module(module_name) ==
    /\ IF module_name \notin DOMAIN available_modules
       THEN /\ module_log' = << >>
            /\ module_results' = Returned("run_single_module", None)
       ELSE LET module == available_modules[module_name] IN
            /\ module_log' = SingleCalls(module)
            /\ module_results' = Returned("run_single_module", SingleResult(module))
    /\ UNCHANGED << available_modules, loaded_modules, instances, behaviour, disabled,
                    crawl_vars >>

NextModules ==
    \/ \E module_name \in ModuleNames : load_module(module_name)
    \/ \E module_name \in ModuleNames : enable_module(module_name)
    \/ \E module_name \in ModuleNames : disable_module(module_name)
    \/ run_modules
    \/ \E module_name \in ModuleNames : run_single_module(module_name)

SpecModules == InitModules /\ [][NextModules]_vars

(***************************************************************************)
(* C37  Module enablement: after any sequence of load_module,              *)
(* enable_module and disable_module calls, loaded_modules holds no         *)
(* instance twice, every instance in it is enabled and is the one          *)
(* registered in available_modules under its name, and after               *)
(* disable_module(name) returned True a run_modules executes no instance   *)
(* loaded under that name.                                                 *)
(***************************************************************************)
C37_ModuleEnablement ==
    /\ \A i, j \in DOMAIN loaded_modules :
          loaded_modules[i] = loaded_modules[j] => i = j
    /\ \A i \in DOMAIN loaded_modules :
          LET module == loaded_modules[i] IN
          /\ instances[module].enabled
          /\ instances[module].name \in DOMAIN available_modules
          /\ available_modules[instances[module].name] = module
    /\ module_results.fn = "run_modules" =>
          \A k \in DOMAIN module_log : module_log[k].name \notin disabled

(***************************************************************************)
(* C38  run_modules executes every enabled module of loaded_modules and    *)
(* returns a dictionary with an entry for each: success True with the      *)
(* module's data when run returned, success False with the error when      *)
(* setup or run raised.  A failed setup or an exception in one module does *)
(* not keep the later modules from being executed, and every enabled       *)
(* module has an entry.                                                    *)
(***************************************************************************)
\* the enabled instances of loaded_modules
EnabledModules == { m \in Instances(loaded_modules) : instances[m].enabled }

\* module_log holds a call of that method of that instance
WasCalled(module, method) ==
    \E k \in DOMAIN module_log :
        module_log[k].id = module /\ module_log[k].method = method

C38_RunModulesResults ==
    module_results.fn = "run_modules" =>
        \A m \in EnabledModules :
            LET name == instances[m].name
                b == behaviour[name]
            IN  /\ WasCalled(m, "setup")
                /\ name \in DOMAIN module_results.value
                /\ (b.setup = "true" /\ b.run = "returns") =>
                      module_results.value[name] = [success |-> TRUE, data |-> name]
                /\ b.setup = "raises" =>
                      module_results.value[name] = [success |-> FALSE, error |-> "setup"]
                /\ (b.setup = "true" /\ b.run = "raises") =>
                      module_results.value[name] = [success |-> FALSE, error |-> "run"]

(***************************************************************************)
(* C39  Module cleanup runs exactly once per execution: for every module   *)
(* that run_modules or run_single_module executed and whose setup was      *)
(* attempted, cleanup is called exactly once, after the setup, whether     *)
(* setup failed, run returned or run raised; an exception of cleanup does  *)
(* not reach the caller.                                                   *)
(***************************************************************************)
\* the positions of module_log with a call of that method of that instance
CallsOf(module, method) ==
    { k \in DOMAIN module_log :
        module_log[k].id = module /\ module_log[k].method = method }

C39_CleanupExactlyOnce ==
    module_results.fn \in { "run_modules", "run_single_module" } =>
        /\ ~module_results.raised
        /\ \A m \in DOMAIN instances :
              WasCalled(m, "setup") =>
                 /\ Cardinality(CallsOf(m, "cleanup")) = 1
                 /\ \A s \in CallsOf(m, "setup"), c \in CallsOf(m, "cleanup") : s < c

====
